---- MODULE Spec2Model ----
(***************************************************************************)
(* A model of the grocery detection pipeline of the recipe generator:      *)
(* the vision response normalizer (_parse_vision_response), the confidence *)
(* filter of detect_grocery_items and the ingredient ranker                *)
(* (get_ingredient_suggestions) of src/grocery_detection_utils.py.         *)
(*                                                                         *)
(* Text is modelled as a sequence of one-character strings, so that        *)
(* lower(), strip(), split(), join() and the substring test act on the     *)
(* characters as Python's do.  A confidence is an integer number of tenths *)
(* (0.4 is 4, 0.5 is 5, 1.0 is 10).                                        *)
(***************************************************************************)
EXTENDS Integers, Sequences, FiniteSets, TLC

(***************************************************************************)
(* Bounds of the model.                                                    *)
(***************************************************************************)
\* longest response, in tokens, the vision collaborator emits
MaxTok == 5

\* longest detection list handed directly to the filter and the ranker
MaxDet == 3

\* longest window of the ingredient pool handed to the ranker
MaxWindow == 17

(***************************************************************************)
(* Program constants.                                                      *)
(***************************************************************************)
\* confidence_threshold=0.4, in tenths
DefaultThreshold == 4

\* float(detection.get('confidence', 0.5)), in tenths
DefaultConfidence == 5

\* return ingredients[:15]
MaxSuggestions == 15

(***************************************************************************)
(* Text: Python str operations on sequences of characters.                 *)
(***************************************************************************)
UpperChars == <<"A", "B", "C", "D", "E", "F", "G", "H", "I", "J", "K", "L", "M", "N", "O", "P", "Q", "R", "S", "T", "U", "V", "W", "X", "Y", "Z">>

LowerChars == <<"a", "b", "c", "d", "e", "f", "g", "h", "i", "j", "k", "l", "m", "n", "o", "p", "q", "r", "s", "t", "u", "v", "w", "x", "y", "z">>

Whitespace == {" ", "\t", "\n"}

\* str.lower() on one character
LowerChar(c) ==
    IF \E i \in 1..Len(UpperChars) : UpperChars[i] = c
    THEN LowerChars[CHOOSE i \in 1..Len(UpperChars) : UpperChars[i] = c]
    ELSE c

\* str.lower()
Lower(s) == [i \in 1..Len(s) |-> LowerChar(s[i])]

RECURSIVE LStrip(_)
\* str.lstrip()
LStrip(s) ==
    IF s # <<>> /\ Head(s) \in Whitespace THEN LStrip(Tail(s)) ELSE s

RECURSIVE RStrip(_)
\* str.rstrip()
RStrip(s) ==
    IF s # <<>> /\ s[Len(s)] \in Whitespace
    THEN RStrip(SubSeq(s, 1, Len(s) - 1))
    ELSE s

\* str.strip()
Strip(s) == RStrip(LStrip(s))

RECURSIVE SplitFrom(_, _, _)
\* str.split() with no separator: the maximal runs of non-whitespace characters;
\* cur is the word being read, words the words already read
SplitFrom(s, cur, words) ==
    IF s = <<>>
    THEN IF cur = <<>> THEN words ELSE Append(words, cur)
    ELSE IF Head(s) \in Whitespace
         THEN SplitFrom(Tail(s), <<>>, IF cur = <<>> THEN words ELSE Append(words, cur))
         ELSE SplitFrom(Tail(s), Append(cur, Head(s)), words)

Split(s) == SplitFrom(s, <<>>, <<>>)

RECURSIVE Join(_, _)
\* sep.join(words)
Join(sep, words) ==
    IF words = <<>> THEN <<>>
    ELSE IF Len(words) = 1 THEN words[1]
    ELSE words[1] \o sep \o Join(sep, Tail(words))

\* sub in s, for text
Contains(sub, s) ==
    \E i \in 1..(Len(s) - Len(sub) + 1) : SubSeq(s, i, i + Len(sub) - 1) = sub

(***************************************************************************)
(* JSON values as json.loads returns them: a str, a number, None; Absent   *)
(* stands for a key the object does not have.                              *)
(***************************************************************************)
JStr(s) == [k |-> "str", s |-> s, n |-> 0]

JNum(n) == [k |-> "num", s |-> <<>>, n |-> n]

JNull == [k |-> "null", s |-> <<>>, n |-> 0]

Absent == [k |-> "absent", s |-> <<>>, n |-> 0]

(***************************************************************************)
(* _normalize_ingredient_name                                              *)
(***************************************************************************)
remove_words ==
    { <<"f", "r", "e", "s", "h">>, <<"o", "r", "g", "a", "n", "i", "c">>, <<"b", "o", "t", "t", "l", "e">>, <<"j", "a", "r">>, <<"c", "a", "n">>, <<"p", "a", "c", "k", "a", "g", "e">>, <<"c", "o", "n", "t", "a", "i", "n", "e", "r">>,
      <<"b", "a", "g">>, <<"b", "o", "x">>, <<"c", "a", "r", "t", "o", "n">>, <<"t", "u", "b", "e">>, <<"f", "r", "o", "z", "e", "n">>, <<"c", "a", "n", "n", "e", "d">>, <<"d", "r", "i", "e", "d">> }

\* a table in which the value of one entry is the key of another
ingredient_mappings_chained(clean_name) ==
    CASE clean_name = <<"b", "e", "l", "l", " ", "p", "e", "p", "p", "e", "r">> -> <<"b", "e", "l", "l", " ", "p", "e", "p", "p", "e", "r", "s">>
      [] clean_name = <<"r", "e", "d", " ", "p", "e", "p", "p", "e", "r">> -> <<"b", "e", "l", "l", " ", "p", "e", "p", "p", "e", "r">>
      [] OTHER -> clean_name

\* the keys of ingredient_mappings whose value differs from the key; the other four
\* entries (soy sauce, olive oil, cooking oil, vegetable oil) map a name to itself
ingredient_mappings(clean_name) ==
    CASE clean_name = <<"b", "e", "l", "l", " ", "p", "e", "p", "p", "e", "r">> -> <<"b", "e", "l", "l", " ", "p", "e", "p", "p", "e", "r", "s">>
      [] clean_name = <<"r", "e", "d", " ", "p", "e", "p", "p", "e", "r">> -> <<"r", "e", "d", " ", "b", "e", "l", "l", " ", "p", "e", "p", "p", "e", "r">>
      [] clean_name = <<"g", "r", "e", "e", "n", " ", "p", "e", "p", "p", "e", "r">> -> <<"g", "r", "e", "e", "n", " ", "b", "e", "l", "l", " ", "p", "e", "p", "p", "e", "r">>
      [] clean_name = <<"y", "e", "l", "l", "o", "w", " ", "p", "e", "p", "p", "e", "r">> -> <<"y", "e", "l", "l", "o", "w", " ", "b", "e", "l", "l", " ", "p", "e", "p", "p", "e", "r">>
      [] clean_name = <<"s", "o", "y", " ", "s", "a", "u", "c", "e">> -> <<"s", "o", "y", " ", "s", "a", "u", "c", "e">>
      [] clean_name = <<"o", "l", "i", "v", "e", " ", "o", "i", "l">> -> <<"o", "l", "i", "v", "e", " ", "o", "i", "l">>
      [] clean_name = <<"c", "o", "o", "k", "i", "n", "g", " ", "o", "i", "l">> -> <<"c", "o", "o", "k", "i", "n", "g", " ", "o", "i", "l">>
      [] clean_name = <<"v", "e", "g", "e", "t", "a", "b", "l", "e", " ", "o", "i", "l">> -> <<"v", "e", "g", "e", "t", "a", "b", "l", "e", " ", "o", "i", "l">>
      [] OTHER -> clean_name

\* a filter that keeps every word
NotRemoveWordKeepAll(word) == TRUE

\* word not in remove_words
NotRemoveWord(word) == word \notin remove_words

_normalize_ingredient_name(name) ==
    LET words == Split(Lower(name))
        filtered_words == SelectSeq(words, NotRemoveWord)
        clean_name == Strip(Join(<<" ">>, filtered_words))
    IN  ingredient_mappings(clean_name)

(***************************************************************************)
(* _is_valid_ingredient                                                    *)
(***************************************************************************)
invalid_terms ==
    { <<"u", "n", "k", "n", "o", "w", "n">>, <<"o", "t", "h", "e", "r">>, <<"m", "i", "x", "e", "d">>, <<"v", "a", "r", "i", "e", "t", "y">>, <<"a", "s", "s", "o", "r", "t", "e", "d">>, <<"g", "e", "n", "e", "r", "i", "c">>,
      <<"f", "o", "o", "d">>, <<"i", "t", "e", "m">>, <<"p", "r", "o", "d", "u", "c", "t">>, <<"t", "h", "i", "n", "g">>, <<"s", "t", "u", "f", "f">>, <<"c", "o", "n", "t", "a", "i", "n", "e", "r">>,
      <<"p", "a", "c", "k", "a", "g", "e">>, <<"w", "r", "a", "p", "p", "e", "r">>, <<"l", "a", "b", "e", "l">>, <<"b", "r", "a", "n", "d">> }

food_categories ==
    { <<"v", "e", "g", "e", "t", "a", "b", "l", "e">>, <<"f", "r", "u", "i", "t">>, <<"p", "r", "o", "t", "e", "i", "n">>, <<"d", "a", "i", "r", "y">>, <<"p", "a", "n", "t", "r", "y">>,
      <<"c", "o", "n", "d", "i", "m", "e", "n", "t">>, <<"s", "p", "i", "c", "e">>, <<"h", "e", "r", "b">>, <<"g", "r", "a", "i", "n">>, <<"l", "e", "g", "u", "m", "e">> }

food_words ==
    { <<"o", "i", "l">>, <<"s", "a", "u", "c", "e">>, <<"s", "p", "i", "c", "e">>, <<"h", "e", "r", "b">>, <<"s", "a", "l", "t">>, <<"p", "e", "p", "p", "e", "r">>, <<"v", "i", "n", "e", "g", "a", "r">> }

\* the check without its test against invalid_terms
_is_valid_ingredient_any_term(name, category) ==
    IF Len(name) < 2 THEN FALSE
    ELSE category \in food_categories \/ \E word \in food_words : Contains(word, name)

_is_valid_ingredient(name, category) ==
    IF Len(name) < 2 THEN FALSE
    ELSE IF name \in invalid_terms THEN FALSE
    ELSE category \in food_categories \/ \E word \in food_words : Contains(word, name)

(***************************************************************************)
(* _get_ingredient_priority                                                *)
(***************************************************************************)
\* the high-priority set without 'garlic'
high_priority_without_garlic ==
    { <<"o", "n", "i", "o", "n">>, <<"t", "o", "m", "a", "t", "o">>, <<"p", "o", "t", "a", "t", "o">>, <<"c", "a", "r", "r", "o", "t">>, <<"b", "e", "l", "l", " ", "p", "e", "p", "p", "e", "r">>,
      <<"o", "l", "i", "v", "e", " ", "o", "i", "l">>, <<"s", "a", "l", "t">>, <<"p", "e", "p", "p", "e", "r">>, <<"e", "g", "g", "s">>, <<"b", "u", "t", "t", "e", "r">>, <<"c", "h", "e", "e", "s", "e">> }

high_priority ==
    { <<"o", "n", "i", "o", "n">>, <<"g", "a", "r", "l", "i", "c">>, <<"t", "o", "m", "a", "t", "o">>, <<"p", "o", "t", "a", "t", "o">>, <<"c", "a", "r", "r", "o", "t">>, <<"b", "e", "l", "l", " ", "p", "e", "p", "p", "e", "r">>,
      <<"o", "l", "i", "v", "e", " ", "o", "i", "l">>, <<"s", "a", "l", "t">>, <<"p", "e", "p", "p", "e", "r">>, <<"e", "g", "g", "s">>, <<"b", "u", "t", "t", "e", "r">>, <<"c", "h", "e", "e", "s", "e">> }

medium_priority ==
    { <<"c", "h", "i", "c", "k", "e", "n">>, <<"b", "e", "e", "f">>, <<"f", "i", "s", "h">>, <<"r", "i", "c", "e">>, <<"p", "a", "s", "t", "a">>, <<"b", "r", "e", "a", "d">>, <<"m", "i", "l", "k">>,
      <<"l", "e", "t", "t", "u", "c", "e">>, <<"s", "p", "i", "n", "a", "c", "h">>, <<"b", "r", "o", "c", "c", "o", "l", "i">>, <<"l", "e", "m", "o", "n">>, <<"l", "i", "m", "e">> }

_get_ingredient_priority(ingredient) ==
    IF ingredient \in high_priority THEN 1
    ELSE IF ingredient \in medium_priority THEN 2
    ELSE 3

(***************************************************************************)
(* get_ingredient_suggestions (the Ranker)                                 *)
(***************************************************************************)
\* the loop without its duplicate check
NotSeenNoCheck(clean_name, seen_ingredients) == TRUE

\* if clean_name not in seen_ingredients
NotSeen(clean_name, seen_ingredients) == clean_name \notin seen_ingredients

RECURSIVE CollectIngredients(_, _, _)
\* the for loop over detections: ingredients and seen_ingredients are its two
\* accumulators.  A name or a category that is not a str has no lower(): the
\* loop ends in AttributeError.
CollectIngredients(detections, ingredients, seen_ingredients) ==
    IF detections = <<>> THEN [exc |-> "none", value |-> ingredients]
    ELSE LET detection == Head(detections)
         IN  IF detection.name.k # "str" \/ detection.category.k # "str"
             THEN [exc |-> "AttributeError", value |-> <<>>]
             ELSE LET item_name == Strip(Lower(detection.name.s))
                      category == Lower(detection.category.s)
                      clean_name == _normalize_ingredient_name(item_name)
                  IN  IF item_name = <<>>
                      THEN CollectIngredients(Tail(detections), ingredients, seen_ingredients)
                      ELSE IF _is_valid_ingredient(clean_name, category)
                              /\ NotSeen(clean_name, seen_ingredients)
                      THEN CollectIngredients(Tail(detections),
                                              Append(ingredients, clean_name),
                                              seen_ingredients \cup {clean_name})
                      ELSE CollectIngredients(Tail(detections), ingredients, seen_ingredients)

\* the place of x in a list sorted by priority: after every entry whose key is
\* not greater than its own, so entries of equal key keep their order
InsertByPriority(sorted, x) ==
    LET before == Cardinality({i \in 1..Len(sorted) :
                     _get_ingredient_priority(sorted[i]) <= _get_ingredient_priority(x)})
    IN  SubSeq(sorted, 1, before) \o <<x>> \o SubSeq(sorted, before + 1, Len(sorted))

\* the same with x placed before the entries of equal key
InsertBeforeEqual(sorted, x) ==
    LET before == Cardinality({i \in 1..Len(sorted) :
                     _get_ingredient_priority(sorted[i]) < _get_ingredient_priority(x)})
    IN  SubSeq(sorted, 1, before) \o <<x>> \o SubSeq(sorted, before + 1, Len(sorted))

RECURSIVE SortUnstable(_)
\* a sort by priority that reverses the entries of equal key
SortUnstable(ingredients) ==
    IF ingredients = <<>> THEN <<>>
    ELSE InsertBeforeEqual(SortUnstable(SubSeq(ingredients, 1, Len(ingredients) - 1)),
                           ingredients[Len(ingredients)])

\* the list left as collected
SortSkipped(ingredients) == ingredients

RECURSIVE SortByPriority(_)
\* ingredients.sort(key=...): list.sort is a stable sort
SortByPriority(ingredients) ==
    IF ingredients = <<>> THEN <<>>
    ELSE InsertByPriority(SortByPriority(SubSeq(ingredients, 1, Len(ingredients) - 1)),
                          ingredients[Len(ingredients)])

\* the list returned whole
TruncateSkipped(ingredients) == ingredients

\* ingredients[:15]
Truncate(ingredients) ==
    SubSeq(ingredients, 1, IF Len(ingredients) < MaxSuggestions
                           THEN Len(ingredients) ELSE MaxSuggestions)

\* the function with the list cut to 15 before the sort
get_ingredient_suggestions_cut_first(detections) ==
    IF detections = <<>> THEN [raised |-> FALSE, value |-> <<>>]
    ELSE LET collected == CollectIngredients(detections, <<>>, {})
         IN  IF collected.exc # "none"
             THEN [raised |-> TRUE, value |-> <<>>]
             ELSE [raised |-> FALSE, value |-> SortByPriority(Truncate(collected.value))]

\* the function's outcome: raised says that an exception left it
get_ingredient_suggestions(detections) ==
    IF detections = <<>> THEN [raised |-> FALSE, value |-> <<>>]
    ELSE LET collected == CollectIngredients(detections, <<>>, {})
         IN  IF collected.exc # "none"
             THEN [raised |-> TRUE, value |-> <<>>]
             ELSE [raised |-> FALSE, value |-> Truncate(SortByPriority(collected.value))]

(***************************************************************************)
(* The confidence filter of detect_grocery_items                           *)
(***************************************************************************)
\* the comparison made strict
PassesThresholdStrict(confidence, threshold) == confidence > threshold

\* detection.get('confidence', 0) >= self.confidence_threshold
PassesThreshold(confidence, threshold) == confidence >= threshold

FilterByConfidence(detections, threshold) ==
    LET Keep(detection) == PassesThreshold(detection.confidence, threshold)
    IN  SelectSeq(detections, Keep)

\* the list handed to the filter, as the list comprehension leaves it: it
\* builds a new list and reads the confidence of each detection
DetectionsAfterFilter(detections, threshold) == detections

\* the loop writing item_name back into each detection
DetectionsRenamed(detections) ==
    [i \in 1..Len(detections) |->
        IF detections[i].name.k = "str"
        THEN [detections[i] EXCEPT !.name = JStr(Strip(Lower(detections[i].name.s)))]
        ELSE detections[i]]

\* the list handed to get_ingredient_suggestions, as the function leaves it:
\* the loop reads name and category with get() and assigns to no detection
DetectionsAfterSuggestions(detections) == detections

(***************************************************************************)
(* The vision collaborator's response text, in tokens.  "[", "]" and ","   *)
(* are those characters; a "text" token is a run of prose holding neither  *)
(* bracket (it is no JSON); an "obj" token is the text of one JSON object  *)
(* with the four keys name, confidence, category, description, each a JSON *)
(* value or Absent.                                                        *)
(***************************************************************************)
Tok(t) ==
    [t |-> t, name |-> Absent, confidence |-> Absent,
     category |-> Absent, description |-> Absent]

Obj(name, confidence, category, description) ==
    [t |-> "obj", name |-> name, confidence |-> confidence,
     category |-> category, description |-> description]

\* content.find(ch): the 0-based index of the first ch, or -1
Find(toks, ch) ==
    IF \E i \in 1..Len(toks) : toks[i].t = ch
    THEN (CHOOSE i \in 1..Len(toks) :
              /\ toks[i].t = ch
              /\ \A j \in 1..(i - 1) : toks[j].t # ch) - 1
    ELSE -1

\* content.rfind(ch): the 0-based index of the last ch, or -1
RFind(toks, ch) ==
    IF \E i \in 1..Len(toks) : toks[i].t = ch
    THEN (CHOOSE i \in 1..Len(toks) :
              /\ toks[i].t = ch
              /\ \A j \in (i + 1)..Len(toks) : toks[j].t # ch) - 1
    ELSE -1

\* content[lo:hi] for 0 <= lo and 0 <= hi
Slice(toks, lo, hi) == SubSeq(toks, lo + 1, hi)

\* json_start = content.find('[')
JsonStart(toks) == Find(toks, "[")

\* the end taken at the first ']' instead of the last
JsonEndFirst(toks) == Find(toks, "]") + 1

\* json_end = content.rfind(']') + 1
JsonEnd(toks) == RFind(toks, "]") + 1

(***************************************************************************)
(* json.loads on a token text.  A value is a dict (an "obj" token) or a    *)
(* list of values.                                                         *)
(***************************************************************************)
DictValue(tok) == [kind |-> "dict", obj |-> tok, items |-> <<>>]

ListValue(items) == [kind |-> "list", obj |-> Tok("list"), items |-> items]

NoParse == [ok |-> FALSE, next |-> 0, value |-> ListValue(<<>>)]

RECURSIVE ParseValue(_, _)
RECURSIVE ParseElements(_, _, _)
\* the value that starts at token i: [ok, next, value], next the token after it
ParseValue(toks, i) ==
    IF i > Len(toks) THEN NoParse
    ELSE IF toks[i].t = "obj"
    THEN [ok |-> TRUE, next |-> i + 1, value |-> DictValue(toks[i])]
    ELSE IF toks[i].t = "["
    THEN IF i + 1 <= Len(toks) /\ toks[i + 1].t = "]"
         THEN [ok |-> TRUE, next |-> i + 2, value |-> ListValue(<<>>)]
         ELSE ParseElements(toks, i + 1, <<>>)
    ELSE NoParse

\* the rest of a list whose elements so far are items: a value at i, then "," or "]"
ParseElements(toks, i, items) ==
    LET v == ParseValue(toks, i)
    IN  IF ~v.ok \/ v.next > Len(toks) THEN NoParse
        ELSE IF toks[v.next].t = ","
        THEN ParseElements(toks, v.next + 1, Append(items, v.value))
        ELSE IF toks[v.next].t = "]"
        THEN [ok |-> TRUE, next |-> v.next + 1, value |-> ListValue(Append(items, v.value))]
        ELSE NoParse

\* json.loads(json_str): the whole text is one value, or JSONDecodeError
json_loads(json_str) ==
    LET v == ParseValue(json_str, 1)
    IN  IF v.ok /\ v.next = Len(json_str) + 1
        THEN [exc |-> "none", value |-> v.value]
        ELSE [exc |-> "JSONDecodeError", value |-> ListValue(<<>>)]

(***************************************************************************)
(* float(x) for a JSON value: a number converts; a str converts when it    *)
(* reads as a decimal (here: a digit, a point and a digit, or one digit,   *)
(* white space around it allowed) and raises ValueError otherwise; None    *)
(* raises TypeError.                                                       *)
(***************************************************************************)
Digits == <<"0", "1", "2", "3", "4", "5", "6", "7", "8", "9">>

DigitValue(c) == (CHOOSE i \in 1..Len(Digits) : Digits[i] = c) - 1

IsDigit(c) == \E i \in 1..Len(Digits) : Digits[i] = c

float(x) ==
    CASE x.k = "num" -> [exc |-> "none", value |-> x.n]
      [] x.k = "str" ->
            LET s == Strip(x.s)
            IN  IF Len(s) = 3 /\ IsDigit(s[1]) /\ s[2] = "." /\ IsDigit(s[3])
                THEN [exc |-> "none", value |-> 10 * DigitValue(s[1]) + DigitValue(s[3])]
                ELSE IF Len(s) = 1 /\ IsDigit(s[1])
                THEN [exc |-> "none", value |-> 10 * DigitValue(s[1])]
                ELSE [exc |-> "ValueError", value |-> 0]
      [] OTHER -> [exc |-> "TypeError", value |-> 0]

\* dict.get(key, default): the default only when the key is absent
Get(value, default) == IF value.k = "absent" THEN default ELSE value

(***************************************************************************)
(* _parse_vision_response (the Normalizer)                                 *)
(***************************************************************************)
\* a fallback parser that guesses an item
_parse_text_response_guess(content) ==
    << [name |-> JStr(<<"a", "p", "p", "l", "e">>), confidence |-> DefaultConfidence,
        category |-> JStr(<<"f", "r", "u", "i", "t">>), description |-> JStr(<<"a", "p", "p", "l", "e">>)] >>

\* the fallback parser: it scrapes nothing and returns []
_parse_text_response(content) == <<>>

\* the record with the description defaulting to 'unknown' instead of the name
NormalizedDetectionUnknown(detection, confidence) ==
    [name |-> Get(detection.name, JStr(<<"u", "n", "k", "n", "o", "w", "n">>)),
     confidence |-> confidence,
     category |-> Get(detection.category, JStr(<<"o", "t", "h", "e", "r">>)),
     description |-> Get(detection.description, JStr(<<"u", "n", "k", "n", "o", "w", "n">>))]

\* the record built for one dict that has a name; confidence is the converted float
NormalizedDetection(detection, confidence) ==
    [name |-> Get(detection.name, JStr(<<"u", "n", "k", "n", "o", "w", "n">>)),
     confidence |-> confidence,
     category |-> Get(detection.category, JStr(<<"o", "t", "h", "e", "r">>)),
     description |-> Get(detection.description, Get(detection.name, JStr(<<"u", "n", "k", "n", "o", "w", "n">>)))]

RECURSIVE NormalizeDetections(_, _)
\* the for loop over the parsed list; the first float() that raises ends it
NormalizeDetections(items, normalized_detections) ==
    IF items = <<>> THEN [exc |-> "none", value |-> normalized_detections]
    ELSE LET detection == Head(items)
         IN  IF detection.kind = "dict" /\ detection.obj.name.k # "absent"
             THEN LET confidence == float(Get(detection.obj.confidence, JNum(DefaultConfidence)))
                  IN  IF confidence.exc # "none"
                      THEN [exc |-> confidence.exc, value |-> <<>>]
                      ELSE NormalizeDetections(Tail(items),
                               Append(normalized_detections,
                                      NormalizedDetection(detection.obj, confidence.value)))
             ELSE NormalizeDetections(Tail(items), normalized_detections)

\* the body of the try block: the exception it ends in ("none": it returned value)
ParseBody(content) ==
    IF ~content.isStr THEN [exc |-> "AttributeError", value |-> <<>>]
    ELSE LET json_start == JsonStart(content.toks)
             json_end == JsonEnd(content.toks)
         IN  IF json_start # -1 /\ json_end # -1
             THEN LET json_str == Slice(content.toks, json_start, json_end)
                      detections == json_loads(json_str)
                  IN  IF detections.exc # "none"
                      THEN [exc |-> detections.exc, value |-> <<>>]
                      ELSE NormalizeDetections(detections.value.items, <<>>)
             ELSE [exc |-> "none", value |-> _parse_text_response(content)]

\* a handler that lets every exception but JSONDecodeError through
CaughtJsonOnly(exc) == FALSE

\* except Exception: the exceptions of the body that are instances of Exception
CaughtByExceptException(exc) ==
    exc \in {"JSONDecodeError", "ValueError", "TypeError", "AttributeError"}

\* the function's outcome: raised says that an exception left it
_parse_vision_response(content) ==
    LET body == ParseBody(content)
    IN  IF body.exc = "none" THEN [raised |-> FALSE, value |-> body.value]
        ELSE IF body.exc = "JSONDecodeError"
        THEN [raised |-> FALSE, value |-> _parse_text_response(content)]
        ELSE IF CaughtByExceptException(body.exc) THEN [raised |-> FALSE, value |-> <<>>]
        ELSE [raised |-> TRUE, value |-> <<>>]

(***************************************************************************)
(* Inputs of the model.                                                    *)
(***************************************************************************)
Det(name, confidence, category) ==
    [name |-> JStr(name), confidence |-> confidence,
     category |-> JStr(category), description |-> JStr(name)]

\* a well-formed object, as the prompt asks for it
ObjFull ==
    Obj(JStr(<<"R", "e", "d", " ", "B", "e", "l", "l", " ", "P", "e", "p", "p", "e", "r">>), JNum(9), JStr(<<"v", "e", "g", "e", "t", "a", "b", "l", "e">>), JStr(<<"a", " ", "p", "e", "p", "p", "e", "r">>))

\* an object with a name only
ObjNameOnly == Obj(JStr(<<"g", "a", "r", "l", "i", "c">>), Absent, Absent, Absent)

\* an object without a name
ObjNoName == Obj(Absent, JNum(9), JStr(<<"f", "r", "u", "i", "t">>), JStr(<<"r", "o", "u", "n", "d">>))

\* an object whose confidence is a word
ObjBadConfidence == Obj(JStr(<<"r", "i", "c", "e">>), JStr(<<"h", "i", "g", "h">>), JStr(<<"g", "r", "a", "i", "n">>), Absent)

Tokens ==
    { Tok("["), Tok("]"), Tok(","), Tok("text"),
      ObjFull, ObjNameOnly, ObjNoName, ObjBadConfidence }

\* the thresholds a detector is built with, in tenths
Thresholds == {0, DefaultThreshold, 10}

\* detections as the Normalizer returns them
DetectionUniverse ==
    { Det(<<"F", "r", "e", "s", "h", " ", "O", "r", "g", "a", "n", "i", "c", " ", "G", "a", "r", "l", "i", "c">>, 8, <<"v", "e", "g", "e", "t", "a", "b", "l", "e">>),
      Det(<<"g", "a", "r", "l", "i", "c">>, 5, <<"o", "t", "h", "e", "r">>),
      Det(<<"R", "e", "d", " ", "P", "e", "p", "p", "e", "r">>, 9, <<"v", "e", "g", "e", "t", "a", "b", "l", "e">>),
      Det(<<"r", "e", "d", " ", "b", "e", "l", "l", " ", "p", "e", "p", "p", "e", "r">>, 4, <<"o", "t", "h", "e", "r">>),
      Det(<<"r", "i", "c", "e">>, 10, <<"g", "r", "a", "i", "n">>),
      Det(<<" ", "Z", "u", "c", "c", "h", "i", "n", "i", " ">>, 3, <<"V", "e", "g", "e", "t", "a", "b", "l", "e">>),
      Det(<<"u", "n", "k", "n", "o", "w", "n">>, 9, <<"v", "e", "g", "e", "t", "a", "b", "l", "e">>),
      Det(<<"J", "a", "r">>, 6, <<"p", "a", "n", "t", "r", "y">>),
      Det(<<>>, 7, <<"f", "r", "u", "i", "t">>),
      Det(<<"a", "p", "p", "l", "e">>, 0, <<"f", "r", "u", "i", "t">>),
      Det(<<"B", "e", "l", "l", " ", "P", "e", "p", "p", "e", "r">>, 9, <<"v", "e", "g", "e", "t", "a", "b", "l", "e">>),
      [name |-> JNull, confidence |-> 9, category |-> JStr(<<"d", "a", "i", "r", "y">>),
       description |-> JNull] }

\* a shelf of items, the three priority tiers mixed
Pool ==
    << Det(<<"a", "p", "p", "l", "e">>, 9, <<"f", "r", "u", "i", "t">>),          Det(<<"o", "n", "i", "o", "n">>, 9, <<"v", "e", "g", "e", "t", "a", "b", "l", "e">>),
       Det(<<"c", "h", "i", "c", "k", "e", "n">>, 8, <<"p", "r", "o", "t", "e", "i", "n">>),      Det(<<"b", "a", "n", "a", "n", "a">>, 7, <<"f", "r", "u", "i", "t">>),
       Det(<<"F", "r", "e", "s", "h", " ", "G", "a", "r", "l", "i", "c">>, 9, <<"v", "e", "g", "e", "t", "a", "b", "l", "e">>), Det(<<"b", "e", "e", "f">>, 6, <<"p", "r", "o", "t", "e", "i", "n">>),
       Det(<<"z", "u", "c", "c", "h", "i", "n", "i">>, 5, <<"v", "e", "g", "e", "t", "a", "b", "l", "e">>),   Det(<<"t", "o", "m", "a", "t", "o">>, 9, <<"v", "e", "g", "e", "t", "a", "b", "l", "e">>),
       Det(<<"f", "i", "s", "h">>, 4, <<"p", "r", "o", "t", "e", "i", "n">>),         Det(<<"s", "o", "y", " ", "s", "a", "u", "c", "e">>, 9, <<"c", "o", "n", "d", "i", "m", "e", "n", "t">>),
       Det(<<"p", "o", "t", "a", "t", "o">>, 8, <<"v", "e", "g", "e", "t", "a", "b", "l", "e">>),     Det(<<"r", "i", "c", "e">>, 9, <<"g", "r", "a", "i", "n">>),
       Det(<<"y", "o", "g", "u", "r", "t">>, 7, <<"d", "a", "i", "r", "y">>),         Det(<<"c", "a", "r", "r", "o", "t">>, 9, <<"v", "e", "g", "e", "t", "a", "b", "l", "e">>),
       Det(<<"p", "a", "s", "t", "a">>, 9, <<"p", "a", "n", "t", "r", "y">>),         Det(<<"t", "o", "f", "u">>, 6, <<"p", "r", "o", "t", "e", "i", "n">>),
       Det(<<"o", "l", "i", "v", "e", " ", "o", "i", "l", " ", "b", "o", "t", "t", "l", "e">>, 9, <<"p", "a", "n", "t", "r", "y">>), Det(<<"b", "r", "e", "a", "d">>, 8, <<"p", "a", "n", "t", "r", "y">>),
       Det(<<"m", "u", "s", "h", "r", "o", "o", "m">>, 5, <<"v", "e", "g", "e", "t", "a", "b", "l", "e">>),   Det(<<"s", "a", "l", "t">>, 9, <<"s", "p", "i", "c", "e">>),
       Det(<<"m", "i", "l", "k", " ", "c", "a", "r", "t", "o", "n">>, 9, <<"d", "a", "i", "r", "y">>),    Det(<<"h", "o", "t", " ", "s", "a", "u", "c", "e">>, 4, <<"o", "t", "h", "e", "r">>),
       Det(<<"p", "e", "p", "p", "e", "r">>, 9, <<"s", "p", "i", "c", "e">>),         Det(<<"l", "e", "t", "t", "u", "c", "e">>, 7, <<"v", "e", "g", "e", "t", "a", "b", "l", "e">>),
       Det(<<"g", "a", "r", "l", "i", "c">>, 6, <<"v", "e", "g", "e", "t", "a", "b", "l", "e">>),     Det(<<"e", "g", "g", "s">>, 9, <<"p", "r", "o", "t", "e", "i", "n">>),
       Det(<<"s", "p", "i", "n", "a", "c", "h">>, 8, <<"v", "e", "g", "e", "t", "a", "b", "l", "e">>),    Det(<<"u", "n", "k", "n", "o", "w", "n">>, 9, <<"o", "t", "h", "e", "r">>),
       Det(<<"b", "u", "t", "t", "e", "r">>, 9, <<"d", "a", "i", "r", "y">>),         Det(<<"b", "r", "o", "c", "c", "o", "l", "i">>, 3, <<"v", "e", "g", "e", "t", "a", "b", "l", "e">>),
       Det(<<"h", "o", "n", "e", "y">>, 9, <<"p", "a", "n", "t", "r", "y">>) >>

\* the steps by which a window walks the shelf
Strides == {1, 5, 7}

(***************************************************************************)
(* State.                                                                  *)
(***************************************************************************)
VARIABLES
    pc,           \* the place reached in the detection flow
    content,      \* response.choices[0].message.content: [isStr, toks]
    parsed,       \* the outcome of _parse_vision_response(content)
    detections,   \* the detections handed to the confidence filter
    threshold,    \* self.confidence_threshold, in tenths
    filtered,     \* filtered_detections, what detect_grocery_items returns
    suggestions,  \* the outcome of get_ingredient_suggestions(filtered)
    cursor,       \* the place on the shelf of the next item of a window
    stride,       \* the step of the window
    failure,      \* the step of the detection flow that raised, and where it was caught
    detected,     \* what process_image gave the page: [raised, value]
    shown,        \* the st.error messages process_image has shown
    rpc,          \* the place reached in generate_recipes_from_prompt
    ingredients,  \* its argument ingredients
    mood,         \* its argument mood
    template,     \* the outcome of load_recipe_prompt()
    prompt,       \* the user message sent to the text collaborator: [sent, text]
    response,     \* the outcome of the text collaborator
    recipes,      \* what generate_recipes_from_prompt gave: [raised, value]
    formatted_recipes,  \* what format_recipe_content(recipes) gave the page
    uploaded_image,         \* the file in the uploader, 0 for none
    image_processed,        \* st.session_state.image_processed
    suggested_ingredients,  \* st.session_state.suggested_ingredients
    ai_ingredients,         \* the value of the multiselect "ai_ingredients"
    common_ingredients,     \* the values of the multiselects of the categories
    custom_ingredients,     \* the text of the field for custom ingredients
    final_ingredients,      \* st.session_state.final_ingredients
    analysed_image          \* history: the upload process_image last ran on, 0 for none

detectVars ==
    <<pc, content, parsed, detections, threshold, filtered, suggestions, cursor, stride>>

flowVars == <<failure, detected, shown>>

recipeVars ==
    <<rpc, ingredients, mood, template, prompt, response, recipes, formatted_recipes>>

sessionVars ==
    <<uploaded_image, image_processed, suggested_ingredients, ai_ingredients,
      common_ingredients, custom_ingredients, final_ingredients, analysed_image>>

vars == <<detectVars, flowVars, recipeVars, sessionVars>>

NoOutcome == [raised |-> FALSE, value |-> <<>>]

\* the response before the collaborator has written anything
EmptyContent == [isStr |-> TRUE, toks |-> <<>>]

\* no step of the detection flow has raised
NoFailure == [step |-> "none", class |-> "none", caught |-> "none"]

\* no step of the detection flow has failed and nothing is returned yet
FlowIdle ==
    /\ failure = NoFailure
    /\ detected = NoOutcome
    /\ shown = <<>>

\* generate_recipes_from_prompt is not in use
RecipeIdle ==
    /\ rpc = "idle"
    /\ ingredients = <<>>
    /\ mood = <<>>
    /\ template = NoOutcome
    /\ prompt = [sent |-> FALSE, text |-> <<>>]
    /\ response = NoOutcome
    /\ recipes = NoOutcome
    /\ formatted_recipes = <<>>

\* the page is not in use
SessionIdle ==
    /\ uploaded_image = 0
    /\ image_processed = FALSE
    /\ suggested_ingredients = <<>>
    /\ ai_ingredients = {}
    /\ common_ingredients = {}
    /\ custom_ingredients = <<>>
    /\ final_ingredients = <<>>
    /\ analysed_image = 0

Init ==
    /\ pc = "respond"
    /\ content = EmptyContent
    /\ parsed = NoOutcome
    /\ detections = <<>>
    /\ threshold = DefaultThreshold
    /\ filtered = <<>>
    /\ suggestions = NoOutcome
    /\ cursor = 0
    /\ stride = 0
    /\ FlowIdle /\ RecipeIdle /\ SessionIdle

\* a detector built with any of the thresholds, its detections given directly
InitRank ==
    /\ pc = "collect"
    /\ content = EmptyContent
    /\ parsed = NoOutcome
    /\ detections = <<>>
    /\ threshold \in Thresholds
    /\ filtered = <<>>
    /\ suggestions = NoOutcome
    /\ cursor = 0
    /\ stride = 0
    /\ FlowIdle /\ RecipeIdle /\ SessionIdle

\* the detections are a window of the shelf
InitWindow ==
    /\ pc = "collect"
    /\ content = EmptyContent
    /\ parsed = NoOutcome
    /\ detections = <<>>
    /\ threshold = DefaultThreshold
    /\ filtered = <<>>
    /\ suggestions = NoOutcome
    /\ cursor \in 1..Len(Pool)
    /\ stride \in Strides
    /\ FlowIdle /\ RecipeIdle /\ SessionIdle

(***************************************************************************)
(* Actions.                                                                *)
(***************************************************************************)
\* the vision collaborator writes one more token of its response
Emit(tok) ==
    /\ pc = "respond"
    /\ content.isStr
    /\ Len(content.toks) < MaxTok
    /\ content' = [content EXCEPT !.toks = Append(@, tok)]
    /\ UNCHANGED <<pc, parsed, detections, threshold, filtered, suggestions, cursor, stride>>
    /\ UNCHANGED <<flowVars, recipeVars, sessionVars>>

\* the vision collaborator answers with no content at all (None)
RespondNone ==
    /\ pc = "respond"
    /\ content = EmptyContent
    /\ content' = [isStr |-> FALSE, toks |-> <<>>]
    /\ UNCHANGED <<pc, parsed, detections, threshold, filtered, suggestions, cursor, stride>>
    /\ UNCHANGED <<flowVars, recipeVars, sessionVars>>

\* detections = self._parse_vision_response(content)
ParseVisionResponse ==
    /\ pc = "respond"
    /\ parsed' = _parse_vision_response(content)
    /\ detections' = parsed'.value
    /\ pc' = "parsed"
    /\ UNCHANGED <<content, threshold, filtered, suggestions, cursor, stride>>
    /\ UNCHANGED <<flowVars, recipeVars, sessionVars>>

\* one more detection in the list handed to the filter
AddDetection(detection) ==
    /\ pc = "collect"
    /\ Len(detections) < MaxDet
    /\ detections' = Append(detections, detection)
    /\ UNCHANGED <<pc, content, parsed, threshold, filtered, suggestions, cursor, stride>>
    /\ UNCHANGED <<flowVars, recipeVars, sessionVars>>

\* the next item of the window
AddFromPool ==
    /\ pc = "collect"
    /\ Len(detections) < MaxWindow
    /\ detections' = Append(detections, Pool[cursor])
    /\ cursor' = ((cursor - 1 + stride) % Len(Pool)) + 1
    /\ UNCHANGED <<pc, content, parsed, threshold, filtered, suggestions, stride>>
    /\ UNCHANGED <<flowVars, recipeVars, sessionVars>>

\* the confidence filter and the return of detect_grocery_items; an exception
\* out of the parse is caught by its except Exception, which returns []
FilterDetections ==
    /\ pc \in {"parsed", "collect"}
    /\ filtered' = IF parsed.raised THEN <<>>
                   ELSE FilterByConfidence(detections, threshold)
    /\ detections' = DetectionsAfterFilter(detections, threshold)
    /\ pc' = "filtered"
    /\ UNCHANGED <<content, parsed, threshold, suggestions, cursor, stride>>
    /\ UNCHANGED <<flowVars, recipeVars, sessionVars>>

\* suggested_ingredients = detector.get_ingredient_suggestions(detections)
GetIngredientSuggestions ==
    /\ pc = "filtered"
    /\ suggestions' = get_ingredient_suggestions(filtered)
    /\ filtered' = DetectionsAfterSuggestions(filtered)
    /\ pc' = "suggested"
    /\ UNCHANGED <<content, parsed, detections, threshold, cursor, stride>>
    /\ UNCHANGED <<flowVars, recipeVars, sessionVars>>

Next ==
    \/ \E tok \in Tokens : Emit(tok)
    \/ RespondNone
    \/ ParseVisionResponse
    \/ FilterDetections
    \/ GetIngredientSuggestions

NextRank ==
    \/ \E detection \in DetectionUniverse : AddDetection(detection)
    \/ FilterDetections
    \/ GetIngredientSuggestions

NextWindow ==
    \/ AddFromPool
    \/ FilterDetections
    \/ GetIngredientSuggestions

\* the detection flow on a response of the vision collaborator
Spec == Init /\ [][Next]_vars

\* the filter and the Ranker on any short list of detections
SpecRank == InitRank /\ [][NextRank]_vars

\* the filter and the Ranker on long lists of detections
SpecWindow == InitWindow /\ [][NextWindow]_vars

(***************************************************************************)
(* Properties.                                                             *)
(***************************************************************************)
\* the list the Ranker has returned
Out == suggestions.value

\* the indices of the detections whose confidence reaches the threshold
Kept == {i \in 1..Len(detections) : detections[i].confidence >= threshold}

\* the k-th smallest index of Kept
KeptAt(k) == CHOOSE i \in Kept : Cardinality({j \in Kept : j <= i}) = k

\* C1: the confidence filter returns exactly the subsequence of the detections
\* whose confidence is >= the threshold (0.0, 0.4 or 1.0): as many items as
\* reach the threshold, and the k-th retained item is the k-th such detection.
C1_FilterIsExactSubsequence ==
    pc \in {"filtered", "suggested"} =>
        /\ Len(filtered) = Cardinality(Kept)
        /\ \A k \in 1..Len(filtered) : filtered[k] = detections[KeptAt(k)]

\* C1's case: at threshold 0.4 the filter has kept several detections, one of them
\* exactly at the threshold, and has dropped one
C1_Witness ==
    /\ pc = "filtered"
    /\ threshold = DefaultThreshold
    /\ Len(filtered) >= 2
    /\ Len(filtered) < Len(detections)
    /\ \E k \in 1..Len(filtered) : filtered[k].confidence = threshold

\* the name the Ranker makes of a detection's name
CleanName(d) == _normalize_ingredient_name(Strip(Lower(d.name.s)))

\* the Ranker accepts the detection: a non-empty name that is a valid ingredient
Accepted(d) ==
    /\ d.name.k = "str"
    /\ d.category.k = "str"
    /\ Strip(Lower(d.name.s)) # <<>>
    /\ _is_valid_ingredient(CleanName(d), Lower(d.category.s))

\* the names of the accepted detections of the Ranker's input
AcceptedNames == {CleanName(filtered[i]) : i \in {j \in 1..Len(filtered) : Accepted(filtered[j])}}

\* C2: the Ranker returns at most 15 strings.
C2_AtMostFifteen ==
    pc = "suggested" => Len(Out) <= 15

\* C2's case: the input holds more than 15 distinct valid names and 15 are returned
C2_Witness ==
    /\ pc = "suggested"
    /\ ~suggestions.raised
    /\ Cardinality(AcceptedNames) > 15
    /\ Len(Out) = 15

\* C3: no two strings of the Ranker output are equal when compared without case.
C3_NoDuplicates ==
    pc = "suggested" =>
        \A i, j \in 1..Len(Out) : i # j => Lower(Out[i]) # Lower(Out[j])

\* C3's case: two accepted detections with different names normalize to the same
\* string, which the output holds
C3_Witness ==
    /\ pc = "suggested"
    /\ ~suggestions.raised
    /\ \E i, j \in 1..Len(filtered) :
          /\ i < j
          /\ Accepted(filtered[i]) /\ Accepted(filtered[j])
          /\ filtered[i].name # filtered[j].name
          /\ CleanName(filtered[i]) = CleanName(filtered[j])
          /\ \E k \in 1..Len(Out) : Out[k] = CleanName(filtered[i])

\* x is the name of an accepted detection of the Ranker's input
HasSource(x) ==
    \E i \in 1..Len(filtered) : Accepted(filtered[i]) /\ CleanName(filtered[i]) = x

\* the place in the input of the first accepted detection named x
FirstAccepted(x) ==
    CHOOSE i \in 1..Len(filtered) :
        /\ Accepted(filtered[i]) /\ CleanName(filtered[i]) = x
        /\ \A j \in 1..(i - 1) : ~(Accepted(filtered[j]) /\ CleanName(filtered[j]) = x)

\* C4: two output names of the same priority tier stand in the order of their
\* first accepted occurrences in the input.
C4_StableWithinTier ==
    pc = "suggested" =>
        \A i, j \in 1..Len(Out) :
            (i < j /\ _get_ingredient_priority(Out[i]) = _get_ingredient_priority(Out[j]))
                => /\ HasSource(Out[i]) /\ HasSource(Out[j])
                   /\ FirstAccepted(Out[i]) < FirstAccepted(Out[j])

\* C4's case: two names of one tier are in the output, and the sort has moved a
\* name of a better tier from behind the first of them to the front of it
C4_Witness ==
    /\ pc = "suggested"
    /\ \E k, i, j \in 1..Len(Out) :
          /\ k < i /\ i < j
          /\ _get_ingredient_priority(Out[i]) = _get_ingredient_priority(Out[j])
          /\ _get_ingredient_priority(Out[k]) < _get_ingredient_priority(Out[i])
          /\ HasSource(Out[k]) /\ HasSource(Out[i])
          /\ FirstAccepted(Out[k]) > FirstAccepted(Out[i])

\* C5: the output is sorted by tier: no high-priority name stands behind a name
\* outside the high-priority set, and no medium-priority name stands behind a name
\* outside both sets.
C5_SortedByTier ==
    pc = "suggested" =>
        \A i, j \in 1..Len(Out) :
            i < j =>
                /\ ~(Out[j] \in high_priority /\ Out[i] \notin high_priority)
                /\ ~(Out[j] \in medium_priority
                     /\ Out[i] \notin (high_priority \cup medium_priority))

\* C5's case: the output holds a name of each tier, and the input had them in
\* another order
C5_Witness ==
    /\ pc = "suggested"
    /\ \E i, j, k \in 1..Len(Out) :
          /\ Out[i] \in high_priority
          /\ Out[j] \in medium_priority
          /\ Out[k] \notin (high_priority \cup medium_priority)
          /\ HasSource(Out[i]) /\ HasSource(Out[j]) /\ HasSource(Out[k])
          /\ FirstAccepted(Out[k]) < FirstAccepted(Out[j])
          /\ FirstAccepted(Out[j]) < FirstAccepted(Out[i])

\* C6: the Normalizer never raises: no exception leaves it, and every failure
\* inside it ends in a returned empty list.
C6_NormalizerNeverRaises ==
    pc # "respond" =>
        /\ ~parsed.raised
        /\ (ParseBody(content).exc # "none" => parsed.value = <<>>)

\* C6's case: a confidence that float() cannot convert, met after an element that
\* was already normalized
C6_Witness ==
    /\ pc = "parsed"
    /\ ParseBody(content).exc = "ValueError"
    /\ Len(content.toks) = 5
    /\ content.toks[2] = ObjFull

\* the text has a '[' with a ']' behind it
HasBracketPair(toks) ==
    \E i, j \in 1..Len(toks) : i < j /\ toks[i].t = "[" /\ toks[j].t = "]"

\* the text from the first '[' to the last ']'
Bracketed(toks) == Slice(toks, Find(toks, "["), RFind(toks, "]") + 1)

\* the response is text with no bracket pair, or its bracketed part is no JSON
Unparseable ==
    /\ content.isStr
    /\ \/ ~HasBracketPair(content.toks)
       \/ json_loads(Bracketed(content.toks)).exc # "none"

IsDetectionObject(tok) ==
    /\ tok.t = "obj"
    /\ tok.name.k = "str"
    /\ tok.confidence.k = "num"
    /\ tok.category.k = "str"
    /\ tok.description.k = "str"

\* the text of a well-formed JSON array of Detection objects
IsDetectionArray(a) ==
    /\ Len(a) >= 2
    /\ a[1].t = "["
    /\ a[Len(a)].t = "]"
    /\ \/ Len(a) = 2
       \/ /\ Len(a) % 2 = 1
          /\ \A k \in 2..(Len(a) - 1) :
                IF k % 2 = 0 THEN IsDetectionObject(a[k]) ELSE a[k].t = ","

\* the elements of such an array, field by field
ArrayElements(a) ==
    [k \in 1..((Len(a) - 1) \div 2) |->
        [name |-> a[2 * k].name, confidence |-> a[2 * k].confidence.n,
         category |-> a[2 * k].category, description |-> a[2 * k].description]]

\* C8 as stated: whatever prose surrounds a well-formed array of Detection objects,
\* the Normalizer returns exactly the array's elements.
C8_RoundTripAnyProse ==
    (pc = "parsed" /\ content.isStr) =>
        \A i, j \in 1..Len(content.toks) :
            (i <= j /\ IsDetectionArray(SubSeq(content.toks, i, j)))
                => parsed.value = ArrayElements(SubSeq(content.toks, i, j))

\* the prose before the array (tokens 1..i-1) has no '[' and the prose behind it
\* (tokens j+1..) has no ']'
ProseHasNoBracket(toks, i, j) ==
    /\ \A k \in 1..(i - 1) : toks[k].t # "["
    /\ \A k \in (j + 1)..Len(toks) : toks[k].t # "]"

\* C8, amended: when the prose before a well-formed array of Detection objects
\* holds no '[' and the prose behind it holds no ']', the Normalizer returns
\* exactly the array's elements, in order, and nothing else.
C8_RoundTripBracketFreeProse ==
    (pc = "parsed" /\ content.isStr) =>
        \A i, j \in 1..Len(content.toks) :
            (/\ i <= j
             /\ IsDetectionArray(SubSeq(content.toks, i, j))
             /\ ProseHasNoBracket(content.toks, i, j))
                => /\ ~parsed.raised
                   /\ parsed.value = ArrayElements(SubSeq(content.toks, i, j))

\* C8's case: a non-empty array with prose before it and behind it
C8_Witness ==
    /\ pc = "parsed"
    /\ \E i, j \in 1..Len(content.toks) :
          /\ 1 < i /\ i + 2 <= j /\ j < Len(content.toks)
          /\ IsDetectionArray(SubSeq(content.toks, i, j))
          /\ ProseHasNoBracket(content.toks, i, j)
          /\ parsed.value = ArrayElements(SubSeq(content.toks, i, j))
          /\ parsed.value # <<>>

\* the bracketed part of the response parses as a JSON array
ParsesAsArray ==
    /\ content.isStr
    /\ HasBracketPair(content.toks)
    /\ json_loads(Bracketed(content.toks)).exc = "none"

\* the elements of that array
ArrayItems == json_loads(Bracketed(content.toks)).value.items

\* the places of the elements that are objects with a name key
Named == {i \in 1..Len(ArrayItems) :
             ArrayItems[i].kind = "dict" /\ ArrayItems[i].obj.name.k # "absent"}

\* the k-th smallest place of Named
NamedAt(k) == CHOOSE i \in Named : Cardinality({j \in Named : j <= i}) = k

\* out holds one record per named element, in array order, with the defaults
RecordsOfNamed(out) ==
    /\ Len(out) = Cardinality(Named)
    /\ \A k \in 1..Len(out) :
          LET o == ArrayItems[NamedAt(k)].obj
              r == out[k]
          IN  /\ r.name = o.name
              /\ r.confidence = IF o.confidence.k = "absent" THEN 5
                                ELSE IF o.confidence.k = "num" THEN o.confidence.n
                                ELSE r.confidence
              /\ r.category = IF o.category.k = "absent" THEN JStr(<<"o", "t", "h", "e", "r">>)
                              ELSE o.category
              /\ r.description = IF o.description.k = "absent" THEN o.name
                                 ELSE o.description

AllConfidencesConvert ==
    \A i \in Named :
        float(Get(ArrayItems[i].obj.confidence, JNum(5))).exc = "none"

WellFormedName(x) ==
    /\ Len(x) >= 2
    /\ Lower(x) = x
    /\ x \notin invalid_terms

\* C10 as stated: every returned string is of length >= 2, lowercase, no invalid
\* term, and comes from a detection whose category is in the food-category
\* allowlist or whose normalized name contains a food word.
C10_NamesAreFoodByCategory ==
    pc = "suggested" =>
        \A k \in 1..Len(Out) :
            /\ WellFormedName(Out[k])
            /\ \E i \in 1..Len(filtered) :
                  /\ filtered[i].name.k = "str"
                  /\ filtered[i].category.k = "str"
                  /\ CleanName(filtered[i]) = Out[k]
                  /\ \/ filtered[i].category.s \in food_categories
                     \/ \E word \in food_words : Contains(word, Out[k])

\* C10, amended: every returned string is of length >= 2, lowercase, no invalid
\* term, and comes from a detection whose category, put in lowercase, is in the
\* food-category allowlist or whose normalized name contains a food word.
C10_NamesAreFoodByLoweredCategory ==
    pc = "suggested" =>
        \A k \in 1..Len(Out) :
            /\ WellFormedName(Out[k])
            /\ \E i \in 1..Len(filtered) :
                  /\ filtered[i].name.k = "str"
                  /\ filtered[i].category.k = "str"
                  /\ CleanName(filtered[i]) = Out[k]
                  /\ \/ Lower(filtered[i].category.s) \in food_categories
                     \/ \E word \in food_words : Contains(word, Out[k])

\* C10's case: the output holds a name accepted for a category written with a
\* capital, a name accepted for a food word in it, and the input held an invalid term
C10_Witness ==
    /\ pc = "suggested"
    /\ \E k, m \in 1..Len(Out) :
          /\ \A word \in food_words : ~Contains(word, Out[k])
          /\ \A i \in 1..Len(filtered) :
                CleanName(filtered[i]) = Out[k]
                    => /\ filtered[i].category.s \notin food_categories
                       /\ Lower(filtered[i].category.s) \in food_categories
          /\ \E word \in food_words : Contains(word, Out[m])
          /\ \A i \in 1..Len(filtered) :
                CleanName(filtered[i]) = Out[m]
                    => Lower(filtered[i].category.s) \notin food_categories
    /\ \E i \in 1..Len(filtered) :
          filtered[i].name.k = "str" /\ CleanName(filtered[i]) \in invalid_terms

(***************************************************************************)
(* Names put together from words, for _normalize_ingredient_name: one      *)
(* detection of category vegetable whose name grows word by word.          *)
(***************************************************************************)
\* most words of a name
MaxWords == 3

\* the words names are made of: stop words, words of the synonym table, others
NameWords ==
    { <<"R", "e", "d">>, <<"B", "e", "l", "l">>, <<"P", "e", "p", "p", "e", "r">>, <<"F", "r", "e", "s", "h">>, <<"o", "r", "g", "a", "n", "i", "c">>, <<"g", "a", "r", "l", "i", "c">>, <<"j", "a", "r">> }

\* what stands between two words of a name
NameSeparators == { <<" ">>, <<" ", " ">> }

InitNorm ==
    /\ pc = "collect"
    /\ content = EmptyContent
    /\ parsed = NoOutcome
    /\ detections = << Det(<<>>, 9, <<"v", "e", "g", "e", "t", "a", "b", "l", "e">>) >>
    /\ threshold = DefaultThreshold
    /\ filtered = <<>>
    /\ suggestions = NoOutcome
    /\ cursor = 0
    /\ stride = 0
    /\ FlowIdle /\ RecipeIdle /\ SessionIdle

\* one more word in the name of the detection
AddWord(word, sep) ==
    /\ pc = "collect"
    /\ Len(Split(detections[1].name.s)) < MaxWords
    /\ LET name == detections[1].name.s
           longer == IF name = <<>> THEN word ELSE name \o sep \o word
       IN  detections' = << Det(longer, 9, <<"v", "e", "g", "e", "t", "a", "b", "l", "e">>) >>
    /\ UNCHANGED <<pc, content, parsed, threshold, filtered, suggestions, cursor, stride>>
    /\ UNCHANGED <<flowVars, recipeVars, sessionVars>>

NextNorm ==
    \/ \E word \in NameWords, sep \in NameSeparators : AddWord(word, sep)
    \/ FilterDetections
    \/ GetIngredientSuggestions

\* the filter and the Ranker on one detection with a name of several words
SpecNorm == InitNorm /\ [][NextNorm]_vars

\* the words of the detection's name, in lowercase
NameWordsOf == Split(Lower(detections[1].name.s))

\* the words of the name that are not in the stop-list, in order
KeptWords ==
    LET words == NameWordsOf
        places == {i \in 1..Len(words) : words[i] \notin remove_words}
        at(k) == CHOOSE i \in places : Cardinality({j \in places : j <= i}) = k
    IN  [k \in 1..Cardinality(places) |-> words[at(k)]]

RECURSIVE TotalLen(_)
\* the number of characters of the words of a list
TotalLen(words) == IF words = <<>> THEN 0 ELSE Len(Head(words)) + TotalLen(Tail(words))

\* r is the given words with single spaces between them and nothing else
SingleSpaced(words, r) ==
    /\ Split(r) = words
    /\ Len(r) = TotalLen(words) + Len(words) - 1
    /\ \A i \in 1..Len(r) : r[i] \in Whitespace => r[i] = " "

\* r is what the synonym table makes of the kept words: a key of the table
\* (as a whole) gives its value, any other name is the words single-spaced
RewrittenAsWhole(words, r) ==
    IF words = << <<"b", "e", "l", "l">>, <<"p", "e", "p", "p", "e", "r">> >> THEN r = <<"b", "e", "l", "l", " ", "p", "e", "p", "p", "e", "r", "s">>
    ELSE IF words = << <<"r", "e", "d">>, <<"p", "e", "p", "p", "e", "r">> >> THEN r = <<"r", "e", "d", " ", "b", "e", "l", "l", " ", "p", "e", "p", "p", "e", "r">>
    ELSE IF words = << <<"g", "r", "e", "e", "n">>, <<"p", "e", "p", "p", "e", "r">> >> THEN r = <<"g", "r", "e", "e", "n", " ", "b", "e", "l", "l", " ", "p", "e", "p", "p", "e", "r">>
    ELSE IF words = << <<"y", "e", "l", "l", "o", "w">>, <<"p", "e", "p", "p", "e", "r">> >> THEN r = <<"y", "e", "l", "l", "o", "w", " ", "b", "e", "l", "l", " ", "p", "e", "p", "p", "e", "r">>
    ELSE SingleSpaced(words, r)

\* C11: normalization drops every whole word of the stop-list, joins the other
\* words with single spaces and rewrites the result only when the whole of it is
\* a key of the synonym table: "red pepper" becomes "red bell pepper", "red bell
\* pepper" stays, and a detection named "Red Bell Pepper" of category vegetable
\* gives the Ranker output ["red bell pepper"].
C11_NormalizeDropsStopWords ==
    pc = "suggested" =>
        LET kept == KeptWords
        IN  /\ ~suggestions.raised
            /\ IF kept = <<>> THEN Out = <<>>
               ELSE Len(Out) = 1 /\ RewrittenAsWhole(kept, Out[1])
            /\ detections[1].name.s = <<"R", "e", "d", " ", "P", "e", "p", "p", "e", "r">> => Out = << <<"r", "e", "d", " ", "b", "e", "l", "l", " ", "p", "e", "p", "p", "e", "r">> >>
            /\ detections[1].name.s = <<"R", "e", "d", " ", "B", "e", "l", "l", " ", "P", "e", "p", "p", "e", "r">> => Out = << <<"r", "e", "d", " ", "b", "e", "l", "l", " ", "p", "e", "p", "p", "e", "r">> >>

\* C11's case: a name of three words with a capital, a double space and a stop
\* word between the two words of a key of the synonym table
C11_Witness ==
    /\ pc = "suggested"
    /\ detections[1].name.s = <<"R", "e", "d", " ", " ", "F", "r", "e", "s", "h", " ", "P", "e", "p", "p", "e", "r">>
    /\ Out = << <<"r", "e", "d", " ", "b", "e", "l", "l", " ", "p", "e", "p", "p", "e", "r">> >>

\* the two detections of the garlic scenario
FreshOrganicGarlic == Det(<<"F", "r", "e", "s", "h", " ", "O", "r", "g", "a", "n", "i", "c", " ", "G", "a", "r", "l", "i", "c">>, 8, <<"v", "e", "g", "e", "t", "a", "b", "l", "e">>)
PlainGarlic == Det(<<"g", "a", "r", "l", "i", "c">>, 5, <<"o", "t", "h", "e", "r">>)

\* the places of "garlic" in the Ranker's output
GarlicPlaces == {j \in 1..Len(Out) : Out[j] = <<"g", "a", "r", "l", "i", "c">>}

\* C12 as stated: "garlic" is in neither priority set and is ranked in tier 3,
\* so every entry of tier 1 or 2 stands before it.
C12_GarlicIsTierThree ==
    (pc = "suggested" /\ ~suggestions.raised) =>
        \A j \in GarlicPlaces :
            /\ <<"g", "a", "r", "l", "i", "c">> \notin high_priority \cup medium_priority
            /\ _get_ingredient_priority(Out[j]) = 3
            /\ \A i \in 1..Len(Out) : _get_ingredient_priority(Out[i]) < 3 => i < j

\* C12 amended: "garlic" is in the high-priority set and is ranked in tier 1, so
\* only tier-1 entries stand before it; the detections "Fresh Organic Garlic"
\* (vegetable, 0.8) and "garlic" (other, 0.5) give the single entry "garlic".
C12_GarlicIsTierOne ==
    (pc = "suggested" /\ ~suggestions.raised) =>
        /\ \A j \in GarlicPlaces :
            /\ _get_ingredient_priority(Out[j]) = 1
            /\ \A i \in 1..(j - 1) : _get_ingredient_priority(Out[i]) = 1
        /\ filtered = << FreshOrganicGarlic, PlainGarlic >> => Out = << <<"g", "a", "r", "l", "i", "c">> >>

\* C12's case: the two garlic detections after a detection of rice (tier 2),
\* and "garlic" first in the output
C12_Witness ==
    /\ pc = "suggested"
    /\ filtered = << Det(<<"r", "i", "c", "e">>, 10, <<"g", "r", "a", "i", "n">>), FreshOrganicGarlic, PlainGarlic >>
    /\ Out = << <<"g", "a", "r", "l", "i", "c">>, <<"r", "i", "c", "e">> >>

(***************************************************************************)
(* Recipe generation: load_recipe_prompt and generate_recipes_from_prompt. *)
(***************************************************************************)
\* most ingredients in a list
MaxIngredients == 3

\* an exception of a class, with the text str(e) gives
Exc(class, text) == [class |-> class, text |-> text]

NoExc == Exc("none", <<>>)

\* an outcome of a function that may raise
Raise(exc) == [exc |-> exc, value |-> <<>>]
Return(value) == [exc |-> NoExc, value |-> value]

\* what prompts/recipe_prompt.txt may hold: text with the two named
\* substitution points {ingredients} and {mood}
TemplateTexts ==
    { <<"M", "a", "k", "e", " ", "t", "w", "o", " ", "r", "e", "c", "i", "p", "e", "s", " ", "w", "i", "t", "h", " ", "{", "i", "n", "g", "r", "e", "d", "i", "e", "n", "t", "s", "}", ".", " ", "M", "o", "o", "d", ":", " ", "{", "m", "o", "o", "d", "}">>,
      <<"{", "m", "o", "o", "d", "}", "?", " ", "U", "s", "e", " ", "{", "{", "o", "n", "l", "y", "}", "}", " ", "{", "i", "n", "g", "r", "e", "d", "i", "e", "n", "t", "s", "}">> }

\* the states of the prompt file
TemplateStores ==
    [status : {"present"}, text : TemplateTexts]
        \cup { [status |-> "missing", text |-> <<>>],
               [status |-> "unreadable", text |-> <<>>] }

\* open(prompt_path).read(); FileNotFoundError and IOError are logged and raised again
load_recipe_prompt(store) ==
    IF store.status = "present" THEN Return(store.text)
    ELSE IF store.status = "missing"
         THEN Raise(Exc("FileNotFoundError", <<"N", "o", " ", "s", "u", "c", "h", " ", "f", "i", "l", "e">>))
         ELSE Raise(Exc("PermissionError", <<"P", "e", "r", "m", "i", "s", "s", "i", "o", "n", " ", "d", "e", "n", "i", "e", "d">>))

\* the first place from i on where t holds c, 0 if there is none
FindFrom(t, c, i) ==
    LET places == {j \in i..Len(t) : t[j] = c}
    IN  IF places = {} THEN 0 ELSE CHOOSE j \in places : \A k \in places : j <= k

RECURSIVE FormatFrom(_, _, _, _, _)
\* str.format from place i of the template on, acc the text made so far:
\* {{ and }} give one brace, {name} gives the keyword argument of that name,
\* whose text is copied as it is
FormatFrom(t, i, ingredient_list, mood_, acc) ==
    IF i > Len(t) THEN Return(acc)
    ELSE IF t[i] = "{" THEN
        IF i < Len(t) /\ t[i + 1] = "{"
        THEN FormatFrom(t, i + 2, ingredient_list, mood_, acc \o <<"{">>)
        ELSE LET close == FindFrom(t, "}", i)
                 field == SubSeq(t, i + 1, close - 1)
             IN  IF close = 0 THEN Raise(Exc("ValueError", <<"e", "x", "p", "e", "c", "t", "e", "d", " ", "'", "}", "'", " ", "b", "e", "f", "o", "r", "e", " ", "e", "n", "d", " ", "o", "f", " ", "s", "t", "r", "i", "n", "g">>))
                 ELSE IF field = <<"i", "n", "g", "r", "e", "d", "i", "e", "n", "t", "s">>
                      THEN FormatFrom(t, close + 1, ingredient_list, mood_, acc \o ingredient_list)
                 ELSE IF field = <<"m", "o", "o", "d">>
                      THEN FormatFrom(t, close + 1, ingredient_list, mood_, acc \o mood_)
                 ELSE IF field = <<>>
                      THEN Raise(Exc("IndexError", <<"R", "e", "p", "l", "a", "c", "e", "m", "e", "n", "t", " ", "i", "n", "d", "e", "x", " ", "0", " ", "o", "u", "t", " ", "o", "f", " ", "r", "a", "n", "g", "e">>))
                 ELSE Raise(Exc("KeyError", field))
    ELSE IF t[i] = "}" THEN
        IF i < Len(t) /\ t[i + 1] = "}"
        THEN FormatFrom(t, i + 2, ingredient_list, mood_, acc \o <<"}">>)
        ELSE Raise(Exc("ValueError", <<"S", "i", "n", "g", "l", "e", " ", "'", "}", "'", " ", "e", "n", "c", "o", "u", "n", "t", "e", "r", "e", "d", " ", "i", "n", " ", "f", "o", "r", "m", "a", "t", " ", "s", "t", "r", "i", "n", "g">>))
    ELSE FormatFrom(t, i + 1, ingredient_list, mood_, acc \o <<t[i]>>)

\* prompt_template.format(ingredients=ingredient_list, mood=mood)
Format(prompt_template, ingredient_list, mood_) ==
    FormatFrom(prompt_template, 1, ingredient_list, mood_, <<>>)

\* ','.join(ingredients)
JoinWithComma(ingredients_) == Join(<<",">>, ingredients_)

\* ', '.join(ingredients)
JoinIngredients(ingredients_) == Join(<<",", " ">>, ingredients_)

\* the outcomes of OpenAI(): a client, or an error (no API key)
ClientOutcomes ==
    { NoExc, Exc("OpenAIError", <<"T", "h", "e", " ", "a", "p", "i", "_", "k", "e", "y", " ", "c", "l", "i", "e", "n", "t", " ", "o", "p", "t", "i", "o", "n", " ", "m", "u", "s", "t", " ", "b", "e", " ", "s", "e", "t">>) }

\* a response of the collaborator: its choices, content None or a text
Response(choices, isNone, text) ==
    [exc |-> NoExc, choices |-> choices, isNone |-> isNone, text |-> text]

\* the call raised
CallRaised(exc) == [exc |-> exc, choices |-> 0, isNone |-> TRUE, text |-> <<>>]

\* the texts the collaborator may return
ResponseTexts ==
    { <<>>, <<"T", "a", "c", "o", "s">>, <<" ", " ">> \o <<"1", ".", " ", "T", "a", "c", "o", "s", " ", "2", ".", " ", "S", "o", "u", "p">> \o <<"\n">> }

\* the outcomes of client.chat.completions.create(...)
CompletionOutcomes ==
    { CallRaised(Exc("APIConnectionError", <<"C", "o", "n", "n", "e", "c", "t", "i", "o", "n", " ", "e", "r", "r", "o", "r", ".">>)),
      CallRaised(Exc("RateLimitError", <<"R", "a", "t", "e", " ", "l", "i", "m", "i", "t", " ", "r", "e", "a", "c", "h", "e", "d">>)),
      CallRaised(Exc("AuthenticationError", <<"I", "n", "c", "o", "r", "r", "e", "c", "t", " ", "A", "P", "I", " ", "k", "e", "y", " ", "p", "r", "o", "v", "i", "d", "e", "d">>)),
      Response(0, TRUE, <<>>),
      Response(1, TRUE, <<>>) }
        \cup { Response(1, FALSE, text) : text \in ResponseTexts }

\* the text taken as it came
ResultUnstripped(completion) ==
    IF completion.choices = 0 THEN Raise(Exc("IndexError", <<"l", "i", "s", "t", " ", "i", "n", "d", "e", "x", " ", "o", "u", "t", " ", "o", "f", " ", "r", "a", "n", "g", "e">>))
    ELSE Return(IF completion.isNone THEN <<>> ELSE completion.text)

\* (response.choices[0].message.content or "").strip()
Result(completion) ==
    IF completion.choices = 0 THEN Raise(Exc("IndexError", <<"l", "i", "s", "t", " ", "i", "n", "d", "e", "x", " ", "o", "u", "t", " ", "o", "f", " ", "r", "a", "n", "g", "e">>))
    ELSE Return(Strip(IF completion.isNone THEN <<>> ELSE completion.text))

Header == <<"*", "*", "Y", "o", "u", "r", " ", "A", "I", "-", "G", "e", "n", "e", "r", "a", "t", "e", "d", " ", "R", "e", "c", "i", "p", "e", "s", ":", "*", "*">>

ErrorPrefix == <<"*", "*", "E", "r", "r", "o", "r", ":", "*", "*", " ">> \o <<"E", "r", "r", "o", "r", " ", "g", "e", "n", "e", "r", "a", "t", "i", "n", "g", " ", "r", "e", "c", "i", "p", "e", "s", ":", " ">>

ErrorSuffix ==
    <<"\n", "\n">> \o <<"P", "l", "e", "a", "s", "e", " ", "t", "r", "y", " ", "a", "g", "a", "i", "n", " ", "o", "r", " ", "c", "h", "e", "c", "k", " ", "y", "o", "u", "r", " ", "O", "p", "e", "n", "A", "I", " ", "A", "P", "I", " ", "c", "o", "n", "f", "i", "g", "u", "r", "a", "t", "i", "o", "n", ".">>

\* f"**Your AI-Generated Recipes:**\n\n{result}"
SuccessString(result) == Header \o <<"\n", "\n">> \o result

\* f"**Error:** {error_msg}\n\nPlease try again or check your OpenAI API configuration."
ErrorString(exc) == ErrorPrefix \o exc.text \o ErrorSuffix

\* the body of the try of generate_recipes_from_prompt, up to its return or
\* the exception that leaves it; template, prompt and response as far as reached
RecipeTryBody(ingredients_, mood_, store, client, completion) ==
    LET ingredient_list == JoinIngredients(ingredients_)
        loaded == load_recipe_prompt(store)
        formatted == Format(loaded.value, ingredient_list, mood_)
        result == Result(completion)
        unsent == [sent |-> FALSE, text |-> <<>>]
        sent == [sent |-> TRUE, text |-> formatted.value]
        unanswered == CallRaised(NoExc)
        at(exc, value, template_, prompt_, response_) ==
            [exc |-> exc, value |-> value, template |-> template_,
             prompt |-> prompt_, response |-> response_]
    IN  IF loaded.exc # NoExc THEN at(loaded.exc, <<>>, loaded, unsent, unanswered)
        ELSE IF formatted.exc # NoExc THEN at(formatted.exc, <<>>, loaded, unsent, unanswered)
        ELSE IF client # NoExc THEN at(client, <<>>, loaded, unsent, unanswered)
        ELSE IF completion.exc # NoExc THEN at(completion.exc, <<>>, loaded, sent, completion)
        ELSE IF result.exc # NoExc THEN at(result.exc, <<>>, loaded, sent, completion)
        ELSE at(NoExc, SuccessString(result.value), loaded, sent, completion)

\* the classes of the exceptions that are subclasses of Exception
ExceptionClasses ==
    { "Exception", "FileNotFoundError", "PermissionError", "ValueError", "IndexError",
      "KeyError", "AttributeError", "OpenAIError", "APIConnectionError",
      "RateLimitError", "AuthenticationError" }

\* a handler for the errors of the OpenAI library only
CaughtOpenAIErrorOnly(exc) ==
    exc.class \in { "OpenAIError", "RateLimitError", "AuthenticationError" }

\* a handler that lets the errors of reading a file pass
CaughtUnlessFileError(exc) ==
    exc.class \in ExceptionClasses \ { "FileNotFoundError", "PermissionError" }

\* except Exception as e
CaughtByRecipeExcept(exc) == exc.class \in ExceptionClasses

\* generate_recipes_from_prompt(ingredients, mood): the string it returns or
\* the exception it raises, with the template, prompt and response of its body
generate_recipes_from_prompt(ingredients_, mood_, store, client, completion) ==
    LET body == RecipeTryBody(ingredients_, mood_, store, client, completion)
        outcome ==
            IF body.exc = NoExc THEN [raised |-> FALSE, value |-> body.value, exc |-> NoExc]
            ELSE IF CaughtByRecipeExcept(body.exc)
                 THEN [raised |-> FALSE, value |-> ErrorString(body.exc), exc |-> body.exc]
                 ELSE [raised |-> TRUE, value |-> <<>>, exc |-> body.exc]
    IN  [template |-> body.template, prompt |-> body.prompt,
         response |-> body.response, recipes |-> outcome]

\* the ingredient names a list is made of
IngredientPool == { <<"c", "h", "i", "c", "k", "e", "n">>, <<"c", "h", "e", "e", "s", "e">>, <<"o", "n", "i", "o", "n", "s">>, <<"{", "m", "o", "o", "d", "}">> }

\* the moods
Moods == { <<"Q", "u", "i", "c", "k", " ", "&", " ", "E", "a", "s", "y">>, <<"C", "o", "m", "f", "o", "r", "t", " ", "F", "o", "o", "d", " ", "C", "l", "a", "s", "s", "i", "c", "s">>, <<"{", "i", "n", "g", "r", "e", "d", "i", "e", "n", "t", "s", "}">> }

InitRecipe ==
    /\ rpc = "compose"
    /\ ingredients = <<>>
    /\ mood \in Moods
    /\ template = Return(<<>>)
    /\ prompt = [sent |-> FALSE, text |-> <<>>]
    /\ response = CallRaised(NoExc)
    /\ recipes = [raised |-> FALSE, value |-> <<>>, exc |-> NoExc]
    /\ formatted_recipes = <<>>
    /\ pc = "idle"
    /\ content = EmptyContent
    /\ parsed = NoOutcome
    /\ detections = <<>>
    /\ threshold = DefaultThreshold
    /\ filtered = <<>>
    /\ suggestions = NoOutcome
    /\ cursor = 0
    /\ stride = 0
    /\ FlowIdle /\ SessionIdle

\* one more ingredient in the list given to generate_recipes_from_prompt
AddIngredient(item) ==
    /\ rpc = "compose"
    /\ Len(ingredients) < MaxIngredients
    /\ ingredients' = Append(ingredients, item)
    /\ UNCHANGED <<rpc, mood, template, prompt, response, recipes, formatted_recipes>>
    /\ UNCHANGED <<detectVars, flowVars, sessionVars>>

\* generate_recipes_from_prompt(ingredients, mood) with the prompt file in one
\* of its states and the collaborator giving one of its outcomes
GenerateRecipes(store, client, completion) ==
    /\ rpc = "compose"
    /\ LET run == generate_recipes_from_prompt(ingredients, mood, store, client, completion)
       IN  /\ template' = run.template
           /\ prompt' = run.prompt
           /\ response' = run.response
           /\ recipes' = run.recipes
    /\ rpc' = "done"
    /\ UNCHANGED <<ingredients, mood, formatted_recipes>>
    /\ UNCHANGED <<detectVars, flowVars, sessionVars>>

NextRecipe ==
    \/ \E item \in IngredientPool : AddIngredient(item)
    \/ \E store \in TemplateStores, client \in ClientOutcomes,
          completion \in CompletionOutcomes : GenerateRecipes(store, client, completion)

SpecRecipe == InitRecipe /\ [][NextRecipe]_vars

(***************************************************************************)
(* The detection flow with its failures: process_image,                    *)
(* detect_objects_detectron2, GroceryObjectDetector.__init__,              *)
(* _encode_image and detect_grocery_items.                                 *)
(***************************************************************************)
\* most elements in the array of a response
MaxElements == 3

\* return suggested_ingredients[:10]
MaxReturned == 10

\* an object whose name is null and whose confidence is 1.5
ObjNullName == Obj(JNull, JNum(15), JStr(<<"d", "a", "i", "r", "y">>), Absent)

\* an object whose confidence is -0.1
ObjNegative == Obj(JStr(<<"a", "p", "p", "l", "e">>), JNum(0 - 1), JStr(<<"f", "r", "u", "i", "t">>), Absent)

\* an object whose name is a number and whose confidence is 1.5
ObjNumberName == Obj(JNum(7), JNum(15), JStr(<<"p", "a", "n", "t", "r", "y">>), Absent)

\* what the array of a response may hold: objects, and text that is no JSON
Elements ==
    { ObjFull, ObjNameOnly, ObjNoName, ObjBadConfidence,
      ObjNullName, ObjNegative, ObjNumberName, Tok("text") }

\* os.makedirs, open(image_path, 'wb') and f.write of process_image raising
SaveErrors == { Exc("PermissionError", <<"P", "e", "r", "m", "i", "s", "s", "i", "o", "n", " ", "d", "e", "n", "i", "e", "d", ":", " ", "'", "u", "p", "l", "o", "a", "d", "s", "'">>) }

\* OpenAI() raising in GroceryObjectDetector.__init__
DetectorInitErrors ==
    { Exc("OpenAIError", <<"T", "h", "e", " ", "a", "p", "i", "_", "k", "e", "y", " ", "c", "l", "i", "e", "n", "t", " ", "o", "p", "t", "i", "o", "n", " ", "m", "u", "s", "t", " ", "b", "e", " ", "s", "e", "t">>) }

\* open(image_path, "rb") and the encoding raising in _encode_image
EncodeErrors ==
    { Exc("FileNotFoundError", <<"N", "o", " ", "s", "u", "c", "h", " ", "f", "i", "l", "e", " ", "o", "r", " ", "d", "i", "r", "e", "c", "t", "o", "r", "y">>),
      Exc("PermissionError", <<"P", "e", "r", "m", "i", "s", "s", "i", "o", "n", " ", "d", "e", "n", "i", "e", "d">>) }

\* self.client.chat.completions.create raising, or a response without choices
VisionCallErrors ==
    { Exc("APIConnectionError", <<"C", "o", "n", "n", "e", "c", "t", "i", "o", "n", " ", "e", "r", "r", "o", "r", ".">>),
      Exc("AuthenticationError", <<"I", "n", "c", "o", "r", "r", "e", "c", "t", " ", "A", "P", "I", " ", "k", "e", "y", " ", "p", "r", "o", "v", "i", "d", "e", "d">>),
      Exc("RateLimitError", <<"R", "a", "t", "e", " ", "l", "i", "m", "i", "t", " ", "r", "e", "a", "c", "h", "e", "d">>),
      Exc("IndexError", <<"l", "i", "s", "t", " ", "i", "n", "d", "e", "x", " ", "o", "u", "t", " ", "o", "f", " ", "r", "a", "n", "g", "e">>) }

\* a handler for the errors of parsing only
CaughtValueErrorOnly(exc) == exc.class = "ValueError"

\* a handler that lets the errors of reading a file pass
CaughtUnlessReadError(exc) ==
    exc.class \in ExceptionClasses \ { "FileNotFoundError", "PermissionError" }

\* detect_grocery_items: except Exception as e
CaughtInDetectGroceryItems(exc) == exc.class \in ExceptionClasses

\* detect_objects_detectron2: except Exception as e
CaughtInDetectObjects(exc) == exc.class \in ExceptionClasses

\* process_image: except Exception as e
CaughtInProcessImage(exc) == exc.class \in ExceptionClasses

\* the functions with a try around a step, from the innermost out; the
\* handlers of __init__ and _encode_image raise again and are left out
Frames(step) ==
    IF step \in {"encode", "call"}
    THEN << "detect_grocery_items", "detect_objects_detectron2", "process_image" >>
    ELSE IF step \in {"init", "suggest"}
    THEN << "detect_objects_detectron2", "process_image" >>
    ELSE << "process_image" >>

\* the handler of a function catches the exception
Handles(frame, exc) ==
    IF frame = "detect_grocery_items" THEN CaughtInDetectGroceryItems(exc)
    ELSE IF frame = "detect_objects_detectron2" THEN CaughtInDetectObjects(exc)
    ELSE CaughtInProcessImage(exc)

\* the innermost function that catches an exception raised at a step
CaughtIn(step, exc) ==
    LET frames == Frames(step)
        catching == {i \in 1..Len(frames) : Handles(frames[i], exc)}
    IN  IF catching = {} THEN "nowhere"
        ELSE frames[CHOOSE i \in catching : \A j \in catching : i <= j]

\* st.error(f"Error processing image: {str(e)}")
ErrorShown(exc) == <<"E", "r", "r", "o", "r", " ", "p", "r", "o", "c", "e", "s", "s", "i", "n", "g", " ", "i", "m", "a", "g", "e", ":", " ">> \o exc.text

\* a step raises: detect_grocery_items returns [] and the flow goes on, or
\* detect_objects_detectron2 returns [], or process_image shows the error and
\* returns [], or the exception leaves process_image
AfterFailure(step, exc) ==
    LET caught == CaughtIn(step, exc)
    IN  /\ failure' = [step |-> step, class |-> exc.class, caught |-> caught]
        /\ IF caught = "detect_grocery_items"
           THEN /\ filtered' = <<>>
                /\ pc' = "filtered"
                /\ UNCHANGED <<detected, shown>>
           ELSE /\ pc' = "returned"
                /\ detected' = [raised |-> caught = "nowhere", value |-> <<>>]
                /\ shown' = IF caught = "process_image"
                            THEN Append(shown, ErrorShown(exc)) ELSE shown
                /\ UNCHANGED filtered
        /\ UNCHANGED <<content, parsed, detections, threshold, suggestions, cursor, stride>>
        /\ UNCHANGED <<recipeVars, sessionVars>>

\* process_image cannot save the upload
SaveUploadFails(exc) == pc = "start" /\ AfterFailure("save", exc)

\* GroceryObjectDetector(...) raises
DetectorInitFails(exc) == pc = "start" /\ AfterFailure("init", exc)

\* self._encode_image(image_path) raises
EncodeImageFails(exc) == pc = "start" /\ AfterFailure("encode", exc)

\* the call of the vision collaborator raises
VisionCallFails(exc) == pc = "start" /\ AfterFailure("call", exc)

\* the vision collaborator answers
VisionResponds ==
    /\ pc = "start"
    /\ pc' = "respond"
    /\ UNCHANGED <<content, parsed, detections, threshold, filtered, suggestions, cursor, stride>>
    /\ UNCHANGED <<flowVars, recipeVars, sessionVars>>

\* the answer is text without an array
RespondProse ==
    /\ pc = "respond"
    /\ content = EmptyContent
    /\ content' = [isStr |-> TRUE, toks |-> << Tok("text") >>]
    /\ UNCHANGED <<pc, parsed, detections, threshold, filtered, suggestions, cursor, stride>>
    /\ UNCHANGED <<flowVars, recipeVars, sessionVars>>

\* the answer is an array, with one more element
AddElement(element) ==
    /\ pc = "respond"
    /\ content.isStr
    /\ IF content.toks = <<>> THEN TRUE ELSE Head(content.toks) = Tok("[")
    /\ Len(content.toks) \div 2 < MaxElements
    /\ content' =
          [content EXCEPT !.toks =
              IF @ = <<>> THEN << Tok("["), element, Tok("]") >>
              ELSE SubSeq(@, 1, Len(@) - 1) \o << Tok(","), element, Tok("]") >>]
    /\ UNCHANGED <<pc, parsed, detections, threshold, filtered, suggestions, cursor, stride>>
    /\ UNCHANGED <<flowVars, recipeVars, sessionVars>>

\* the list returned whole
TopAll(suggested) == suggested

\* suggested_ingredients[:10]
Top(suggested) ==
    SubSeq(suggested, 1, IF Len(suggested) < MaxReturned THEN Len(suggested) ELSE MaxReturned)

\* the return of detect_objects_detectron2 and of process_image; an exception
\* out of get_ingredient_suggestions goes the way of the failures
ReturnSuggestions ==
    /\ pc = "suggested"
    /\ IF suggestions.raised
       THEN AfterFailure("suggest", Exc("AttributeError", <<"o", "b", "j", "e", "c", "t", " ", "h", "a", "s", " ", "n", "o", " ", "a", "t", "t", "r", "i", "b", "u", "t", "e", " ", "'", "l", "o", "w", "e", "r", "'">>))
       ELSE /\ detected' = [raised |-> FALSE, value |-> Top(suggestions.value)]
            /\ pc' = "returned"
            /\ UNCHANGED <<content, parsed, detections, threshold, filtered, suggestions,
                           cursor, stride, failure, shown>>
            /\ UNCHANGED <<recipeVars, sessionVars>>

\* process_image(image_file) is called
InitDetect ==
    /\ pc = "start"
    /\ content = EmptyContent
    /\ parsed = NoOutcome
    /\ detections = <<>>
    /\ threshold = DefaultThreshold
    /\ filtered = <<>>
    /\ suggestions = NoOutcome
    /\ cursor = 0
    /\ stride = 0
    /\ FlowIdle /\ RecipeIdle /\ SessionIdle

NextDetect ==
    \/ \E exc \in SaveErrors : SaveUploadFails(exc)
    \/ \E exc \in DetectorInitErrors : DetectorInitFails(exc)
    \/ \E exc \in EncodeErrors : EncodeImageFails(exc)
    \/ \E exc \in VisionCallErrors : VisionCallFails(exc)
    \/ VisionResponds
    \/ RespondNone
    \/ RespondProse
    \/ \E element \in Elements : AddElement(element)
    \/ ParseVisionResponse
    \/ FilterDetections
    \/ GetIngredientSuggestions
    \/ ReturnSuggestions

SpecDetect == InitDetect /\ [][NextDetect]_vars

(***************************************************************************)
(* Properties of recipe generation.                                        *)
(***************************************************************************)
RECURSIVE CommaSeparated(_)
\* the items of a list in order, with ", " between one and the next
CommaSeparated(items) ==
    IF items = <<>> THEN <<>>
    ELSE IF Len(items) = 1 THEN items[1]
    ELSE items[1] \o <<",", " ">> \o CommaSeparated(Tail(items))

\* s begins with p
StartsWith(p, s) == Len(s) >= Len(p) /\ SubSeq(s, 1, Len(p)) = p

\* s ends with p
EndsWith(p, s) == Len(s) >= Len(p) /\ SubSeq(s, Len(s) - Len(p) + 1, Len(s)) = p

\* the returned string is of the error form
IsErrorForm(s) == StartsWith(<<"*", "*", "E", "r", "r", "o", "r", ":", "*", "*">>, s)

\* the text the collaborator returned, None taken as the empty text
ReturnedText == IF response.isNone THEN <<>> ELSE response.text

\* r is t without the whitespace at its two ends
IsStripOf(r, t) ==
    /\ r # <<>> => r[1] \notin Whitespace /\ r[Len(r)] \notin Whitespace
    /\ \E a \in 1..(Len(t) + 1) :
          /\ a + Len(r) - 1 <= Len(t)
          /\ r = SubSeq(t, a, a + Len(r) - 1)
          /\ \A i \in 1..Len(t) : (i < a \/ i >= a + Len(r)) => t[i] \in Whitespace

\* the call of the collaborator was made and gave a response
CallSucceeded == rpc = "done" /\ prompt.sent /\ response.exc = NoExc

\* the exception came from the collaborator: from OpenAI() or from the call
CollaboratorFailed ==
    /\ rpc = "done"
    /\ recipes.exc.class \in
          { "OpenAIError", "APIConnectionError", "RateLimitError", "AuthenticationError" }

\* the prompt file was missing or could not be read
TemplateFailed == rpc = "done" /\ template.exc # NoExc

\* C13: for any ingredient list and mood, the prompt sent to the text
\* collaborator contains the ingredients joined by ", " in list order and the
\* mood as it is; ["chicken","cheese","onions"] and "Quick & Easy" give a prompt
\* that contains "chicken, cheese, onions" and "Quick & Easy".
C13_PromptHoldsIngredientsAndMood ==
    prompt.sent =>
        /\ Contains(CommaSeparated(ingredients), prompt.text)
        /\ Contains(mood, prompt.text)
        /\ (ingredients = << <<"c", "h", "i", "c", "k", "e", "n">>, <<"c", "h", "e", "e", "s", "e">>, <<"o", "n", "i", "o", "n", "s">> >> /\ mood = <<"Q", "u", "i", "c", "k", " ", "&", " ", "E", "a", "s", "y">>)
              => /\ Contains(<<"c", "h", "i", "c", "k", "e", "n", ",", " ", "c", "h", "e", "e", "s", "e", ",", " ", "o", "n", "i", "o", "n", "s">>, prompt.text)
                 /\ Contains(<<"Q", "u", "i", "c", "k", " ", "&", " ", "E", "a", "s", "y">>, prompt.text)

\* C13's case: the list and the mood of the scenario, and a prompt was sent
C13_Witness ==
    /\ prompt.sent
    /\ ingredients = << <<"c", "h", "i", "c", "k", "e", "n">>, <<"c", "h", "e", "e", "s", "e">>, <<"o", "n", "i", "o", "n", "s">> >>
    /\ mood = <<"Q", "u", "i", "c", "k", " ", "&", " ", "E", "a", "s", "y">>
    /\ Contains(<<"c", "h", "i", "c", "k", "e", "n", ",", " ", "c", "h", "e", "e", "s", "e", ",", " ", "o", "n", "i", "o", "n", "s">>, prompt.text)

\* C14 as stated: whenever the call of the collaborator succeeds, the returned
\* string is the header followed by the text the collaborator returned (None
\* taken as empty), and never of the error form.
C14_HeaderThenReturnedText ==
    CallSucceeded =>
        /\ ~recipes.raised
        /\ StartsWith(Header, recipes.value)
        /\ EndsWith(ReturnedText, recipes.value)
        /\ ~IsErrorForm(recipes.value)

\* C14 amended: whenever the call succeeds with a response that has a choice,
\* the returned string is the header, an empty line and the returned text
\* without the whitespace at its ends (None taken as empty), and not of the
\* error form.
C14_HeaderThenStrippedText ==
    (CallSucceeded /\ response.choices > 0) =>
        /\ ~recipes.raised
        /\ StartsWith(Header \o <<"\n", "\n">>, recipes.value)
        /\ IsStripOf(SubSeq(recipes.value, Len(Header) + 3, Len(recipes.value)),
                     ReturnedText)
        /\ ~IsErrorForm(recipes.value)

\* C14's case: the collaborator returned a text with whitespace at both ends
C14_Witness ==
    /\ CallSucceeded
    /\ response.text = <<" ", " ">> \o <<"1", ".", " ", "T", "a", "c", "o", "s", " ", "2", ".", " ", "S", "o", "u", "p">> \o <<"\n">>
    /\ recipes.value = Header \o <<"\n", "\n">> \o <<"1", ".", " ", "T", "a", "c", "o", "s", " ", "2", ".", " ", "S", "o", "u", "p">>

\* C15: on any failure of the text collaborator (OpenAI() or the completion
\* call raising), generate_recipes_from_prompt returns a formatted error string
\* and does not raise: its caller receives a string on every outcome.
C15_CollaboratorFailureGivesErrorString ==
    /\ rpc = "done" => ~recipes.raised
    /\ CollaboratorFailed =>
          /\ IsErrorForm(recipes.value)
          /\ Contains(recipes.exc.text, recipes.value)
          /\ EndsWith(<<"c", "h", "e", "c", "k", " ", "y", "o", "u", "r", " ", "O", "p", "e", "n", "A", "I", " ", "A", "P", "I", " ", "c", "o", "n", "f", "i", "g", "u", "r", "a", "t", "i", "o", "n", ".">>, recipes.value)

\* C15's case: the completion call raised after the prompt was sent
C15_Witness ==
    /\ CollaboratorFailed
    /\ prompt.sent
    /\ response.exc.class = "APIConnectionError"
    /\ IsErrorForm(recipes.value)

\* C16 as stated: when the prompt file is missing or unreadable, the read error
\* propagates out of generate_recipes_from_prompt and is not turned into a
\* returned string.
C16_TemplateFailurePropagates ==
    TemplateFailed => recipes.raised /\ recipes.exc = template.exc

\* C16 amended: when the prompt file is missing or unreadable, load_recipe_prompt
\* raises the read error, and generate_recipes_from_prompt catches it: it
\* returns the error string with the text of the error, and sends no prompt.
C16_TemplateFailureGivesErrorString ==
    TemplateFailed =>
        /\ template.exc.class \in {"FileNotFoundError", "PermissionError"}
        /\ ~recipes.raised
        /\ recipes.value = ErrorPrefix \o template.exc.text \o ErrorSuffix
        /\ ~prompt.sent

\* C16's case: the prompt file is missing
C16_Witness ==
    /\ TemplateFailed
    /\ template.exc.class = "FileNotFoundError"
    /\ IsErrorForm(recipes.value)

(***************************************************************************)
(* Properties of the detection flow.                                       *)
(***************************************************************************)
\* process_image has returned
Returned == pc = "returned"

\* detect_grocery_items has returned
GroceryItemsReturned == pc \in {"filtered", "suggested", "returned"}

\* the reply of the vision collaborator is absent or is no JSON array
MalformedReply ==
    /\ failure.step \in {"none", "suggest"}
    /\ ~content.isStr \/ Unparseable

\* C17: on any failure of the vision collaborator (the construction of the
\* detector, an error of the call, a malformed reply) detect_grocery_items and
\* detect_objects_detectron2 return [] and no exception reaches the page.
C17_VisionFailureGivesEmptyList ==
    /\ ~detected.raised
    /\ failure.step = "init" =>
          /\ failure.caught = "detect_objects_detectron2"
          /\ Returned /\ detected.value = <<>>
    /\ failure.step = "call" =>
          /\ failure.caught = "detect_grocery_items"
          /\ filtered = <<>>
          /\ Returned => detected.value = <<>>
    /\ (GroceryItemsReturned /\ MalformedReply) =>
          /\ filtered = <<>>
          /\ Returned => detected.value = <<>> /\ failure = NoFailure

\* C17's case: the call of the vision collaborator raised, and the page got []
C17_Witness ==
    /\ Returned
    /\ failure.step = "call"
    /\ failure.class = "RateLimitError"
    /\ detected = [raised |-> FALSE, value |-> <<>>]

\* C18 as stated: when reading the staged image fails during detection, the
\* failure is shown to the user as an error message and the result is empty.
C18_ReadFailureIsShown ==
    (Returned /\ failure.step = "encode") =>
        /\ shown # <<>>
        /\ detected = [raised |-> FALSE, value |-> <<>>]

\* C18 amended: when reading the staged image fails during detection, the
\* failure is caught in detect_grocery_items, which returns []; no error message
\* is shown, and the result is empty. A message is shown only when process_image
\* cannot save the upload.
C18_ReadFailureIsSilent ==
    /\ failure.step = "encode" =>
          /\ failure.caught = "detect_grocery_items"
          /\ filtered = <<>>
          /\ shown = <<>>
          /\ Returned => detected = [raised |-> FALSE, value |-> <<>>]
    /\ shown # <<>> => failure.step = "save" /\ Len(shown) = 1

\* C18's case: the staged image is not there, and process_image has returned
C18_Witness ==
    /\ Returned
    /\ failure.step = "encode"
    /\ failure.class = "FileNotFoundError"
    /\ shown = <<>>
    /\ detected = [raised |-> FALSE, value |-> <<>>]

\* a record has a confidence within [0, 1] and a name that is a string
InDataModel(record) ==
    /\ record.confidence \in 0..10
    /\ record.name.k = "str"

\* C20 as stated: every record the Normalizer returns, and so every record
\* detect_grocery_items keeps, has a confidence within [0, 1] and a name that
\* is a string, whatever the array of the response holds.
C20_RecordsInDataModel ==
    /\ \A i \in 1..Len(parsed.value) : InDataModel(parsed.value[i])
    /\ \A i \in 1..Len(filtered) : InDataModel(filtered[i])

(***************************************************************************)
(* The page script of main.py: one run of main() after each interaction.   *)
(***************************************************************************)
\* the number of different photos a user uploads
MaxImages == 2

\* what process_image may return for a photo
DetectionResults ==
    { <<>>, << <<"g", "a", "r", "l", "i", "c">>, <<"r", "i", "c", "e">> >>, << <<"r", "i", "c", "e">>, <<"e", "g", "g", "s">> >> }

\* get_common_fridge_ingredients(), cut down to three of its items
CommonItems == { <<"e", "g", "g", "s">>, <<"r", "i", "c", "e">>, <<"g", "a", "r", "l", "i", "c">> }

\* the texts typed into the field for custom ingredients
CustomTexts ==
    { <<>>, <<"b", "a", "s", "i", "l">>, <<" ", "g", "a", "r", "l", "i", "c", " ", ",", ",", " ", "b", "a", "s", "i", "l">>, <<"r", "i", "c", "e", ",", "r", "i", "c", "e">> }

RECURSIVE SplitOn(_, _, _)
\* text.split(sep) for a separator of one character; part is the part begun
SplitOn(text, sep, part) ==
    IF text = <<>> THEN << part >>
    ELSE IF Head(text) = sep THEN << part >> \o SplitOn(Tail(text), sep, <<>>)
    ELSE SplitOn(Tail(text), sep, Append(part, Head(text)))

\* item.strip() is not empty
NotBlank(item) == Strip(item) # <<>>

RECURSIVE StripAll(_)
\* [item.strip() for item in items]
StripAll(items) ==
    IF items = <<>> THEN <<>> ELSE << Strip(Head(items)) >> \o StripAll(Tail(items))

\* [item.strip() for item in custom_ingredients.split(',') if item.strip()],
\* and [] for an empty text
custom_list(text) ==
    IF text = <<>> THEN <<>>
    ELSE StripAll(SelectSeq(SplitOn(text, ",", <<>>), NotBlank))

\* the elements of a list
Elems(items) == {items[i] : i \in 1..Len(items)}

RECURSIVE AsList(_)
\* a set as a list, as a multiselect gives its value
AsList(set) ==
    IF set = {} THEN <<>>
    ELSE LET item == CHOOSE item \in set : TRUE
         IN  << item >> \o AsList(set \ {item})

\* list(items): the list as it is
list_only(items) == { items }

RECURSIVE Orders(_)
\* the lists that hold each element of a set once
Orders(set) ==
    IF set = {} THEN { <<>> }
    ELSE UNION { { << item >> \o rest : rest \in Orders(set \ {item}) } : item \in set }

\* list(set(items)): the different elements of items, in any order
list_set(items) == Orders(Elems(items))

\* the value of the multiselect "ai_ingredients" when its options are
\* options: a selection made on other options is dropped
KeptSelection(selection, options) ==
    IF selection \subseteq Elems(options) THEN selection ELSE {}

\* selected_ai of render_ingredient_selection_section
selected_ai(selection, options) ==
    IF options # <<>> THEN AsList(selection) ELSE <<>>

(***************************************************************************)
(* format_recipe_content: the recipe text as lines of markup.              *)
(***************************************************************************)
RECURSIVE Replace(_, _)
\* s.replace(old, ''): the occurrences of old are taken out from left to right
Replace(s, old) ==
    IF ~Contains(old, s) THEN s
    ELSE LET first == CHOOSE i \in 1..Len(s) :
                          /\ StartsWith(old, SubSeq(s, i, Len(s)))
                          /\ \A j \in 1..(i - 1) : ~StartsWith(old, SubSeq(s, j, Len(s)))
         IN  SubSeq(s, 1, first - 1) \o Replace(SubSeq(s, first + Len(old), Len(s)), old)

\* text.split('\n')
SplitLines(text) ==
    LET breaks == {i \in 1..Len(text) : text[i] = "\n"}
        at(k) == IF k = 0 THEN 0
                 ELSE IF k > Cardinality(breaks) THEN Len(text) + 1
                 ELSE CHOOSE i \in breaks : Cardinality({j \in breaks : j <= i}) = k
    IN  [k \in 1..(Cardinality(breaks) + 1) |-> SubSeq(text, at(k - 1) + 1, at(k) - 1)]

\* '<div class="recipe-n">'
RecipeDiv(class) == <<"<", "d", "i", "v", " ", "c", "l", "a", "s", "s", "=">> \o << "\"" >> \o class \o << "\"" >> \o <<">">>

\* line.split('.', 1)[1].strip()
AfterFirstDot(line) ==
    LET dot == CHOOSE i \in 1..Len(line) :
                   line[i] = "." /\ \A j \in 1..(i - 1) : line[j] # "."
    IN  Strip(SubSeq(line, dot + 1, Len(line)))

\* the branch of a recipe header: 'recipe 1' or 'recipe 2' in line_lower
RecipeHeader(st, line, number, class) ==
    [out |-> st.out
                \o (IF st.current_recipe # 0 THEN << <<"<", "/", "d", "i", "v", ">">> >> ELSE <<>>)
                \o << RecipeDiv(class), <<"<", "h", "3", ">">> \o line \o <<"<", "/", "h", "3", ">">> >>,
     current_recipe |-> number, in_ingredients |-> FALSE, in_instructions |-> FALSE]

\* the body of the loop over the lines, on one line
FormatLine(st, raw) ==
    LET line == Strip(raw)
        line_lower == Lower(line)
        h4 == <<"<", "h", "4", ">">> \o line \o <<"<", "/", "h", "4", ">">>
    IN  IF line = <<>> THEN [st EXCEPT !.out = Append(@, <<"<", "b", "r", ">">>)]
        ELSE IF Contains(<<"r", "e", "c", "i", "p", "e", " ", "1">>, line_lower)
        THEN RecipeHeader(st, line, 1, <<"r", "e", "c", "i", "p", "e", "-", "1">>)
        ELSE IF Contains(<<"r", "e", "c", "i", "p", "e", " ", "2">>, line_lower)
        THEN RecipeHeader(st, line, 2, <<"r", "e", "c", "i", "p", "e", "-", "2">>)
        ELSE IF StartsWith(<<"n", "a", "m", "e", ":">>, line_lower)
        THEN [st EXCEPT !.out = Append(@, h4)]
        ELSE IF StartsWith(<<"i", "n", "g", "r", "e", "d", "i", "e", "n", "t", "s", ":">>, line_lower)
        THEN [st EXCEPT !.out = @ \o << h4, <<"<", "u", "l", ">">> >>,
                        !.in_ingredients = TRUE,
                        !.in_instructions = FALSE]
        ELSE IF StartsWith(<<"i", "n", "s", "t", "r", "u", "c", "t", "i", "o", "n", "s", ":">>, line_lower)
        THEN [st EXCEPT !.out = @ \o (IF st.in_ingredients THEN << <<"<", "/", "u", "l", ">">> >> ELSE <<>>)
                                  \o << h4, <<"<", "o", "l", ">">> >>,
                        !.in_ingredients = FALSE,
                        !.in_instructions = TRUE]
        ELSE IF StartsWith(<<"t", "o", "t", "a", "l", " ", "t", "i", "m", "e", ":">>, line_lower)
        THEN [st EXCEPT !.out = @ \o (IF st.in_ingredients THEN << <<"<", "/", "u", "l", ">">> >> ELSE <<>>)
                                  \o (IF st.in_instructions THEN << <<"<", "/", "o", "l", ">">> >> ELSE <<>>)
                                  \o << h4 >>,
                        !.in_ingredients = FALSE,
                        !.in_instructions = FALSE]
        ELSE IF StartsWith(<<"-", " ">>, line) /\ st.in_ingredients
        THEN [st EXCEPT !.out = Append(@, <<"<", "l", "i", ">">> \o SubSeq(line, 3, Len(line)) \o <<"<", "/", "l", "i", ">">>)]
        ELSE IF IsDigit(line[1]) /\ Contains(<< "." >>, line) /\ st.in_instructions
        THEN [st EXCEPT !.out = Append(@, <<"<", "l", "i", ">">> \o AfterFirstDot(line) \o <<"<", "/", "l", "i", ">">>)]
        ELSE [st EXCEPT !.out = Append(@, <<"<", "p", ">">> \o line \o <<"<", "/", "p", ">">>)]

RECURSIVE FormatLines(_, _)
\* for line in lines
FormatLines(st, lines) ==
    IF lines = <<>> THEN st ELSE FormatLines(FormatLine(st, Head(lines)), Tail(lines))

\* formatted_lines at the return: the lists and the recipe div still open are closed
formatted_lines(recipe) ==
    LET cleaned == Strip(Replace(recipe, <<"*", "*", "Y", "o", "u", "r", " ", "A", "I", "-", "G", "e", "n", "e", "r", "a", "t", "e", "d", " ", "R", "e", "c", "i", "p", "e", "s", ":", "*", "*">>))
        lines == SplitLines(cleaned)
        st == FormatLines([out |-> <<>>, current_recipe |-> 0,
                           in_ingredients |-> FALSE, in_instructions |-> FALSE], lines)
    IN  st.out
            \o (IF st.in_ingredients THEN << <<"<", "/", "u", "l", ">">> >> ELSE <<>>)
            \o (IF st.in_instructions THEN << <<"<", "/", "o", "l", ">">> >> ELSE <<>>)
            \o (IF st.current_recipe # 0 THEN << <<"<", "/", "d", "i", "v", ">">> >> ELSE <<>>)

format_recipe_content(recipe) ==
    IF recipe = <<>> THEN recipe ELSE Join(<< "\n" >>, formatted_lines(recipe))

\* a run of main() up to the rebuilding of final_ingredients, with the widgets
\* at the given values: the upload section and the selection section
PageWidgets(upload, selection, common, text, reanalyze, result) ==
    LET process == upload # 0 /\ (~image_processed \/ reanalyze)
        options == IF process THEN result ELSE suggested_ingredients
        kept == IF options = <<>> THEN {} ELSE KeptSelection(selection, options)
    IN  /\ uploaded_image' = upload
        /\ suggested_ingredients' = options
        /\ image_processed' = (image_processed \/ process)
        /\ analysed_image' = IF process THEN upload ELSE analysed_image
        /\ ai_ingredients' = kept
        /\ common_ingredients' = common
        /\ custom_ingredients' = text
        /\ final_ingredients' \in
              list_set(selected_ai(kept, options) \o AsList(common) \o custom_list(text))

\* if st.session_state.final_ingredients: the recipe section is rendered
RecipeSectionAlways(final) == TRUE

RecipeSectionRendered(final) == final # <<>>

\* a run in which "Create My Recipes" was not clicked: generate_button is False
\* and generate_recipes_from_prompt is not called
NoGeneration ==
    /\ rpc' = "idle"
    /\ ingredients' = <<>>
    /\ mood' = <<>>
    /\ template' = NoOutcome
    /\ prompt' = [sent |-> FALSE, text |-> <<>>]
    /\ response' = NoOutcome
    /\ recipes' = NoOutcome
    /\ formatted_recipes' = <<>>

\* one run of main() after an interaction other than a click on the button
RunPage(upload, selection, common, text, reanalyze, result) ==
    /\ PageWidgets(upload, selection, common, text, reanalyze, result)
    /\ NoGeneration
    /\ UNCHANGED <<detectVars, flowVars>>

\* the user clicks "Create My Recipes", which the run before rendered: the page
\* runs again with the widgets as they are, and the recipe section, if it is
\* rendered in this run, calls generate_recipes_from_prompt(final_ingredients, mood)
ClickGenerate(selected_mood, store, client, completion) ==
    /\ RecipeSectionRendered(final_ingredients)
    /\ PageWidgets(uploaded_image, ai_ingredients, common_ingredients,
                   custom_ingredients, FALSE, <<>>)
    /\ IF RecipeSectionRendered(final_ingredients')
       THEN LET run == generate_recipes_from_prompt(final_ingredients', selected_mood,
                                                    store, client, completion)
            IN  /\ rpc' = "done"
                /\ ingredients' = final_ingredients'
                /\ mood' = selected_mood
                /\ template' = run.template
                /\ prompt' = run.prompt
                /\ response' = run.response
                /\ recipes' = run.recipes
                /\ formatted_recipes' = IF run.recipes.raised THEN <<>>
                                        ELSE format_recipe_content(run.recipes.value)
       ELSE NoGeneration
    /\ UNCHANGED <<detectVars, flowVars>>

\* the user puts a photo in the uploader, or another one in its place
UploadImage(image) ==
    /\ image # uploaded_image
    /\ \E result \in DetectionResults :
          RunPage(image, ai_ingredients, common_ingredients, custom_ingredients,
                  FALSE, result)

\* the user takes the photo out of the uploader
RemoveImage ==
    /\ uploaded_image # 0
    /\ RunPage(0, ai_ingredients, common_ingredients, custom_ingredients,
               FALSE, <<>>)

\* the user clicks "Re-analyze Photo", shown once a photo was processed
ClickReanalyze ==
    /\ uploaded_image # 0
    /\ image_processed
    /\ \E result \in DetectionResults :
          RunPage(uploaded_image, ai_ingredients, common_ingredients,
                  custom_ingredients, TRUE, result)

\* the user changes the selection of the multiselect "ai_ingredients"
SelectAI(selection) ==
    /\ suggested_ingredients # <<>>
    /\ selection # ai_ingredients
    /\ selection \subseteq Elems(suggested_ingredients)
    /\ RunPage(uploaded_image, selection, common_ingredients, custom_ingredients,
               FALSE, <<>>)

\* the user changes the selection of the multiselects of the categories
SelectCommon(selection) ==
    /\ selection # common_ingredients
    /\ RunPage(uploaded_image, ai_ingredients, selection, custom_ingredients,
               FALSE, <<>>)

\* the user changes the text of the custom ingredients
EditCustom(text) ==
    /\ text # custom_ingredients
    /\ RunPage(uploaded_image, ai_ingredients, common_ingredients, text,
               FALSE, <<>>)

\* the first run of the page: nothing uploaded, nothing selected
InitSession ==
    /\ SessionIdle
    /\ pc = "idle"
    /\ content = EmptyContent
    /\ parsed = NoOutcome
    /\ detections = <<>>
    /\ threshold = DefaultThreshold
    /\ filtered = <<>>
    /\ suggestions = NoOutcome
    /\ cursor = 0
    /\ stride = 0
    /\ FlowIdle /\ RecipeIdle

NextSession ==
    \/ \E image \in 1..MaxImages : UploadImage(image)
    \/ RemoveImage
    \/ ClickReanalyze
    \/ \E selection \in SUBSET (UNION {Elems(r) : r \in DetectionResults}) :
          SelectAI(selection)
    \/ \E selection \in SUBSET CommonItems : SelectCommon(selection)
    \/ \E text \in CustomTexts : EditCustom(text)

SpecSession == InitSession /\ [][NextSession]_vars

\* the page with the selection widgets and the button of the recipe section
NextGenerate ==
    \/ \E selection \in SUBSET { <<"e", "g", "g", "s">>, <<"r", "i", "c", "e">> } : SelectCommon(selection)
    \/ \E text \in { <<>>, <<"b", "a", "s", "i", "l">>, <<"r", "i", "c", "e", ",", "r", "i", "c", "e">> } : EditCustom(text)
    \/ \E selected_mood \in Moods,
          completion \in { CallRaised(Exc("RateLimitError", <<"R", "a", "t", "e", " ", "l", "i", "m", "i", "t", " ", "r", "e", "a", "c", "h", "e", "d">>)),
                           Response(1, FALSE, <<"T", "a", "c", "o", "s">>) } :
          ClickGenerate(selected_mood,
                        [status |-> "present",
                         text |-> <<"M", "a", "k", "e", " ", "t", "w", "o", " ", "r", "e", "c", "i", "p", "e", "s", " ", "w", "i", "t", "h", " ", "{", "i", "n", "g", "r", "e", "d", "i", "e", "n", "t", "s", "}", ".", " ", "M", "o", "o", "d", ":", " ", "{", "m", "o", "o", "d", "}">>],
                        NoExc, completion)

SpecGenerate == InitSession /\ [][NextGenerate]_vars

\* the items selected now: those of the multiselect of the AI suggestions (when
\* it is shown), those of the categories, and the items of the custom text
CurrentlySelected ==
    (IF suggested_ingredients # <<>> THEN ai_ingredients ELSE {})
        \cup common_ingredients
        \cup Elems(custom_list(custom_ingredients))

\* C19: after every run of the page script, final_ingredients is the set union
\* of the AI suggestions selected now, the category items picked now and the
\* free-text items of now: no string twice, every selected item in it, and
\* nothing of an earlier interaction that is no longer selected.
C19_FinalIsUnionOfSelected ==
    /\ \A i, j \in 1..Len(final_ingredients) :
          final_ingredients[i] = final_ingredients[j] => i = j
    /\ Elems(final_ingredients) = CurrentlySelected
    /\ \A i \in 1..Len(final_ingredients) :
          /\ final_ingredients[i] # <<>>
          /\ final_ingredients[i] = Strip(final_ingredients[i])

\* C19's case: "garlic" is selected among the AI suggestions, among the
\* category items and in the custom text, which also has an empty item, and
\* final_ingredients holds it once
C19_Witness ==
    /\ <<"g", "a", "r", "l", "i", "c">> \in ai_ingredients \cap common_ingredients
    /\ custom_ingredients = <<" ", "g", "a", "r", "l", "i", "c", " ", ",", ",", " ", "b", "a", "s", "i", "l">>
    /\ Elems(final_ingredients) = { <<"g", "a", "r", "l", "i", "c">>, <<"b", "a", "s", "i", "l">> }
    /\ Len(final_ingredients) = 2

C22_TruncationAfterSort ==
    (pc = "suggested" /\ ~suggestions.raised) =>
        LET accepted == {i \in 1..Len(filtered) : Accepted(filtered[i])}
            clean == [i \in accepted |-> CleanName(filtered[i])]
            names == {clean[i] : i \in accepted}
            returned == {Out[k] : k \in 1..Len(Out)}
            tier == [x \in names |-> _get_ingredient_priority(x)]
            first == [x \in names |->
                        CHOOSE i \in accepted :
                            clean[i] = x /\ \A j \in accepted : clean[j] = x => i <= j]
            place == [x \in names |->
                        Cardinality({y \in names :
                            \/ tier[y] < tier[x]
                            \/ tier[y] = tier[x] /\ first[y] <= first[x]})]
        IN  Cardinality(names) > 15 =>
                /\ Len(Out) = 15
                /\ returned \subseteq names
                /\ \A k \in 1..Len(Out) : place[Out[k]] = k
                /\ \A d \in names \ returned : \A r \in returned : tier[d] >= tier[r]

\* C22's case: more than 15 names, and a dropped name was accepted before a
\* returned name of a better tier
C22_Witness ==
    /\ pc = "suggested"
    /\ ~suggestions.raised
    /\ Cardinality(AcceptedNames) > 15
    /\ Len(Out) = 15
    /\ \E d \in AcceptedNames \ {Out[k] : k \in 1..Len(Out)} :
          \E k \in 1..Len(Out) :
              /\ FirstAccepted(d) < FirstAccepted(Out[k])
              /\ _get_ingredient_priority(Out[k]) < _get_ingredient_priority(d)

NextReturn ==
    \/ AddFromPool
    \/ FilterDetections
    \/ GetIngredientSuggestions
    \/ ReturnSuggestions

\* detect_objects_detectron2 on the detections of a window of the shelf
SpecReturn == InitWindow /\ [][NextReturn]_vars

\* C23: detect_objects_detectron2 returns at most 10 names, and they are the
\* first min(10, n) entries, in the same order, of the n entries that
\* get_ingredient_suggestions returned for the filtered detections.
C23_AtMostTenPrefix ==
    pc = "returned" =>
        /\ ~detected.raised
        /\ Len(detected.value) <= 10
        /\ ~suggestions.raised =>
              /\ Len(detected.value) = (IF Len(Out) < 10 THEN Len(Out) ELSE 10)
              /\ \A k \in 1..Len(detected.value) : detected.value[k] = Out[k]

\* C23's case: get_ingredient_suggestions returned more than 10 names
C23_Witness ==
    /\ pc = "returned"
    /\ ~suggestions.raised
    /\ Len(Out) > 10
    /\ Len(detected.value) = 10
    /\ detected.value[10] = Out[10]

\* most detections in a list of named detections
MaxNamed == 2

\* names for the detections: the twelve of high_priority, one of
\* medium_priority and one of neither
TierNames == high_priority \cup { <<"r", "i", "c", "e">>, <<"z", "u", "c", "c", "h", "i", "n", "i">> }

\* a list of detections named by names of the tiers, of a food category
InitTier ==
    /\ pc = "collect"
    /\ content = EmptyContent
    /\ parsed = NoOutcome
    /\ detections = <<>>
    /\ threshold = DefaultThreshold
    /\ filtered = <<>>
    /\ suggestions = NoOutcome
    /\ cursor = 0
    /\ stride = 0
    /\ FlowIdle /\ RecipeIdle /\ SessionIdle

\* one more detection, named exactly by a name of a tier
AddNamed(name, category) ==
    /\ pc = "collect"
    /\ Len(detections) < MaxNamed
    /\ detections' = Append(detections, Det(name, 9, category))
    /\ UNCHANGED <<pc, content, parsed, threshold, filtered, suggestions, cursor, stride>>
    /\ UNCHANGED <<flowVars, recipeVars, sessionVars>>

NextTier ==
    \/ \E name \in TierNames, category \in { <<"v", "e", "g", "e", "t", "a", "b", "l", "e">>, <<"p", "a", "n", "t", "r", "y">> } :
          AddNamed(name, category)
    \/ FilterDetections
    \/ GetIngredientSuggestions

SpecTier == InitTier /\ [][NextTier]_vars

\* the high-priority name of a detection is in the output, ahead of every
\* name of tier 2 or 3
AheadAsTierOne(name) ==
    \E k \in 1..Len(Out) :
        /\ Out[k] = name
        /\ \A j \in 1..Len(Out) : Out[j] \notin high_priority => k < j

\* C24: each of the 12 high-priority names is reachable as a tier-1
\* suggestion: a detection named exactly by it, with a food category, gives
\* that name in the Ranker output, ahead of every tier-2 and tier-3 name.
C24_HighPriorityNamesAreTierOne ==
    pc = "suggested" =>
        \A i \in 1..Len(filtered) :
            filtered[i].name.s \in high_priority => AheadAsTierOne(filtered[i].name.s)

\* the same for the eleven names other than "bell pepper"
ElevenAreTierOne ==
    pc = "suggested" =>
        \A i \in 1..Len(filtered) :
            filtered[i].name.s \in high_priority \ { <<"b", "e", "l", "l", " ", "p", "e", "p", "p", "e", "r">> }
                => AheadAsTierOne(filtered[i].name.s)


\* C25 as stated: get_ingredient_suggestions does not raise on the records the
\* Normalizer returned, a null or non-string name or category included, and
\* the names of the accepted records are not lost to such a record.
C25_SuggestionsNeverRaise ==
    /\ ~suggestions.raised
    /\ failure.step # "suggest"
    /\ (Returned /\ failure.step = "none" /\ Cardinality(AcceptedNames) <= MaxReturned) =>
          AcceptedNames = {detected.value[i] : i \in 1..Len(detected.value)}

\* every element whose confidence float() converts, whatever the others are
Convertible ==
    {i \in Named : float(Get(ArrayItems[i].obj.confidence, JNum(5))).exc = "none"}

\* C26 as stated: when the array holds an element whose confidence cannot be
\* converted to a number, the Normalizer still returns a record for every other
\* element with a name key.
C26_BadElementKeepsOthers ==
    (pc = "parsed" /\ ParsesAsArray /\ ~AllConfidencesConvert) =>
        /\ Len(parsed.value) = Cardinality(Convertible)
        /\ \A i \in Convertible :
              \E k \in 1..Len(parsed.value) : parsed.value[k].name = ArrayItems[i].obj.name

\* C27 as stated: at the end of every page run with an upload in the uploader,
\* suggested_ingredients is the result of process_image on that upload, not on
\* an earlier one.
C27_SuggestionsOfCurrentImage ==
    uploaded_image # 0 => analysed_image = uploaded_image

\* C28: generate_recipes_from_prompt is never called with an empty ingredient
\* list: whenever a run of the page has called it, the list it was given is the
\* final_ingredients of that run, and that list is not empty.
C28_NeverGeneratesFromEmpty ==
    rpc = "done" =>
        /\ ingredients # <<>>
        /\ ingredients = final_ingredients

\* C28's case: the button was clicked with two ingredients selected, and the
\* call was made with them and gave the recipes
C28_Witness ==
    /\ rpc = "done"
    /\ Len(ingredients) = 2
    /\ ingredients = final_ingredients
    /\ prompt.sent
    /\ ~recipes.raised

\* C30: name normalization is idempotent: normalizing a normalized name gives
\* the same name, for the name of the detection as the Ranker cleans it and
\* for the name the Ranker returned.
C30_NormalizeIsIdempotent ==
    LET name == detections[1].name.s
        once == _normalize_ingredient_name(Strip(Lower(name)))
        raw == _normalize_ingredient_name(name)
    IN  /\ _normalize_ingredient_name(once) = once
        /\ _normalize_ingredient_name(raw) = raw
        /\ (pc = "suggested" /\ Out # <<>>) =>
              /\ Out = << once >>
              /\ Strip(Lower(Out[1])) = Out[1]
              /\ _normalize_ingredient_name(Out[1]) = Out[1]

\* C30's case: a name with a stop word that the synonym table rewrites, and the
\* returned name is rewritten no further
C30_Witness ==
    /\ pc = "suggested"
    /\ Lower(detections[1].name.s) = <<"f", "r", "e", "s", "h", " ", "r", "e", "d", " ", "p", "e", "p", "p", "e", "r">>
    /\ Out = << <<"r", "e", "d", " ", "b", "e", "l", "l", " ", "p", "e", "p", "p", "e", "r">> >>
    /\ _normalize_ingredient_name(Out[1]) = Out[1]

(***************************************************************************)
(* format_recipe_content on recipe texts put together line by line.        *)
(***************************************************************************)
\* most lines of a recipe text
MaxLines == 3

\* the lines of a recipe text: headers, section titles, items, plain and blank
LineTexts ==
    { <<"R", "e", "c", "i", "p", "e", " ", "1", ":", " ", "T", "a", "c", "o", "s">>, <<"R", "E", "C", "I", "P", "E", " ", "2">>, <<"N", "a", "m", "e", ":", " ", "S", "o", "u", "p">>, <<"I", "n", "g", "r", "e", "d", "i", "e", "n", "t", "s", ":">>,
      <<"I", "n", "s", "t", "r", "u", "c", "t", "i", "o", "n", "s", ":">>, <<"T", "o", "t", "a", "l", " ", "t", "i", "m", "e", ":", " ", "5">>, <<"-", " ", "e", "g", "g", "s">>, <<"1", ".", " ", "M", "i", "x", " ", "w", "e", "l", "l", ".">>, <<"S", "e", "r", "v", "e">>, <<>> }

InitFormat ==
    /\ rpc = "returned"
    /\ ingredients = <<>>
    /\ mood = <<>>
    /\ template = NoOutcome
    /\ prompt = [sent |-> FALSE, text |-> <<>>]
    /\ response = NoOutcome
    /\ recipes = [raised |-> FALSE, value |-> <<>>, exc |-> NoExc]
    /\ formatted_recipes = <<>>
    /\ pc = "idle"
    /\ content = EmptyContent
    /\ parsed = NoOutcome
    /\ detections = <<>>
    /\ threshold = DefaultThreshold
    /\ filtered = <<>>
    /\ suggestions = NoOutcome
    /\ cursor = 0
    /\ stride = 0
    /\ FlowIdle /\ SessionIdle

\* one more line in the text generate_recipes_from_prompt returned
AddLine(line) ==
    /\ rpc = "returned"
    /\ recipes.value = <<>> \/ Len(SplitLines(recipes.value)) < MaxLines
    /\ recipes' = [recipes EXCEPT !.value = IF @ = <<>> THEN line
                                             ELSE @ \o << "\n" >> \o line]
    /\ UNCHANGED <<rpc, ingredients, mood, template, prompt, response, formatted_recipes>>
    /\ UNCHANGED <<detectVars, flowVars, sessionVars>>

\* formatted_recipes = format_recipe_content(recipes)
FormatRecipeContent ==
    /\ rpc = "returned"
    /\ formatted_recipes' = format_recipe_content(recipes.value)
    /\ rpc' = "shown"
    /\ UNCHANGED <<ingredients, mood, template, prompt, response, recipes>>
    /\ UNCHANGED <<detectVars, flowVars, sessionVars>>

NextFormat ==
    \/ \E line \in LineTexts : AddLine(line)
    \/ FormatRecipeContent

SpecFormat == InitFormat /\ [][NextFormat]_vars

\* the lines of the markup
MarkupLines == SplitLines(formatted_recipes)

RECURSIVE Balanced(_, _, _)
\* every list and every recipe div of the lines is closed once, in its turn:
\* list is the list open now ("none", "ul", "ol"), div says a recipe div is open
Balanced(lines, list, div) ==
    IF lines = <<>> THEN list = "none" /\ ~div
    ELSE LET line == Head(lines)
             rest == Tail(lines)
         IN  IF line = <<"<", "u", "l", ">">> THEN list = "none" /\ Balanced(rest, "ul", div)
             ELSE IF line = <<"<", "o", "l", ">">> THEN list = "none" /\ Balanced(rest, "ol", div)
             ELSE IF line = <<"<", "/", "u", "l", ">">> THEN list = "ul" /\ Balanced(rest, "none", div)
             ELSE IF line = <<"<", "/", "o", "l", ">">> THEN list = "ol" /\ Balanced(rest, "none", div)
             ELSE IF StartsWith(<<"<", "d", "i", "v">>, line)
             THEN list = "none" /\ ~div /\ Balanced(rest, "none", TRUE)
             ELSE IF line = <<"<", "/", "d", "i", "v", ">">> THEN list = "none" /\ div /\ Balanced(rest, "none", FALSE)
             ELSE Balanced(rest, list, div)

\* C29 as stated: for any sequence of recipe lines the markup of
\* format_recipe_content is balanced: every <ul>, <ol> and recipe <div> opened
\* is closed exactly once, and no list is open when a new list, a new recipe
\* <div> or the end of the output is reached.
C29_MarkupIsBalanced ==
    rpc = "shown" => Balanced(MarkupLines, "none", FALSE)
====
